---- MODULE Spec2Model ----
(***************************************************************************)
(* Price table, price-table reload and refresh job of the ArchCost backend. *)
(*                                                                         *)
(* Units.  Python floats are modelled as scaled integers: a unit price is   *)
(* held in thousandths of a USD (7.50 -> 7500), a currency rate and a cloud *)
(* multiplier in hundredths (0.92 -> 92).  Floating-point rounding is not   *)
(* modelled.                                                                *)
(*                                                                         *)
(* Scheduling.  The service runs on one asyncio event loop: the code        *)
(* between two awaits that really suspend runs as one step.  Every action   *)
(* below is such a step: the completion of the database or network          *)
(* operation a coroutine waits for, followed by the code up to its next     *)
(* await.  `await get_database()` never suspends (src/database.py:83-84).   *)
(***************************************************************************)
EXTENDS Integers, Sequences, FiniteSets, TLC

(***************************************************************************)
(* Bounds of the model.                                                    *)
(***************************************************************************)
\* refresh-job runs started in one behaviour
MaxRuns == 3
\* times the stored document is replaced from outside the service
MaxSeeds == 1
\* database and network operations that raise in one behaviour
MaxFaults == 1
\* read replicas and regions of the configurations estimated
MaxReplicas == 2
MaxRegions == 3

(***************************************************************************)
(* Compiled-in defaults (class attributes of PricingService).              *)
(***************************************************************************)
DefaultPricing ==
    [ compute |->
          ( "t3.micro" :> 7500 @@ "t3.medium" :> 30400 @@ "t3.large" :> 60800
            @@ "lambda_1m_requests" :> 200 @@ "fargate_vcpu" :> 29000 ),
      database |->
          ( "rds_db.t3.micro" :> 30000 @@ "rds_db.t3.medium" :> 60000
            @@ "rds_db.t3.large" :> 121000 @@ "dynamodb_unit" :> 250
            @@ "firestore_read_1m" :> 60 @@ "firestore_write_1m" :> 180
            @@ "read_replica" :> 55000 @@ "backup_gb" :> 95 ),
      storage |->
          ( "s3_gb" :> 23 @@ "ebs_gb" :> 100 ),
      networking |->
          ( "load_balancer" :> 16200 @@ "data_transfer_gb" :> 90 ),
      cache |->
          ( "redis_t4g_micro" :> 11000 @@ "redis_t4g_small" :> 24000
            @@ "redis_t4g_medium" :> 48000 @@ "memcached_t4g_micro" :> 10000
            @@ "memcached_t4g_small" :> 22000 ),
      cdn |->
          ( "cloudfront_gb" :> 85 @@ "cloudfront_edge_function_1m" :> 600
            @@ "cloudflare_gb" :> 10 @@ "cloudflare_workers_1m" :> 500
            @@ "akamai_gb" :> 120 @@ "video_streaming_multiplier" :> 1500 ),
      messaging |->
          ( "sqs_1m_requests" :> 400 @@ "sns_1m_notifications" :> 500
            @@ "kafka_broker" :> 400000 @@ "rabbitmq_m5_large" :> 140000
            @@ "kinesis_shard" :> 18000 @@ "eventbridge_1m_events" :> 1000 ),
      security |->
          ( "waf_rule" :> 1000 @@ "waf_request_1m" :> 600 @@ "vpn_connection" :> 36500
            @@ "shield_advanced" :> 3000000 @@ "acm_certificate" :> 0
            @@ "secrets_manager_secret" :> 400 @@ "secrets_api_call_10k" :> 50
            @@ "soc2_audit_monthly" :> 1250000 @@ "iso27001_monthly" :> 1667000
            @@ "hipaa_monthly" :> 2083000 @@ "pci_dss_monthly" :> 1500000 ),
      monitoring |->
          ( "cloudwatch_metric" :> 300 @@ "cloudwatch_log_gb" :> 500
            @@ "cloudwatch_dashboard" :> 3000 @@ "datadog_host" :> 15000
            @@ "datadog_log_gb" :> 1700 @@ "newrelic_host" :> 10000
            @@ "newrelic_apm_host" :> 99000 @@ "xray_trace_1m" :> 5000
            @@ "xray_retrieved_1m" :> 500 @@ "alert_channel" :> 0 ),
      cicd |->
          ( "github_actions_linux_minute" :> 8
            @@ "github_actions_windows_minute" :> 16 @@ "gitlab_ci_minute" :> 10
            @@ "jenkins_m5_large" :> 140000 @@ "ecr_storage_gb" :> 100
            @@ "acr_storage_gb" :> 167 @@ "docker_hub_team" :> 7000
            @@ "code_scanning_user" :> 21000 @@ "artifact_storage_gb" :> 250 ),
      replication |->
          ( "cross_region_gb" :> 20 @@ "vpc_peering_gb" :> 10
            @@ "region_multiplier" :> 850 ) ]

DefaultCurrencyRates ==
    "USD" :> 100 @@ "CAD" :> 135 @@ "MXN" :> 1700 @@ "BRL" :> 500
    @@ "ARS" :> 35000 @@ "CLP" :> 90000 @@ "COP" :> 400000 @@ "PEN" :> 370
    @@ "EUR" :> 92 @@ "GBP" :> 79 @@ "CHF" :> 88 @@ "SEK" :> 1050 @@ "NOK" :> 1080
    @@ "DKK" :> 690 @@ "PLN" :> 400 @@ "CZK" :> 2300 @@ "HUF" :> 36000
    @@ "RON" :> 460 @@ "BGN" :> 180 @@ "HRK" :> 690 @@ "TRY" :> 3200
    @@ "RUB" :> 9200 @@ "INR" :> 8400 @@ "JPY" :> 15000 @@ "CNY" :> 720
    @@ "KRW" :> 132000 @@ "SGD" :> 134 @@ "HKD" :> 780 @@ "TWD" :> 3150
    @@ "THB" :> 3500 @@ "MYR" :> 450 @@ "IDR" :> 1570000 @@ "PHP" :> 5600
    @@ "VND" :> 2450000 @@ "PKR" :> 27800 @@ "BDT" :> 11000 @@ "LKR" :> 30500
    @@ "AUD" :> 152 @@ "NZD" :> 168 @@ "AED" :> 367 @@ "SAR" :> 375 @@ "QAR" :> 364
    @@ "KWD" :> 31 @@ "BHD" :> 38 @@ "ILS" :> 365 @@ "EGP" :> 4900 @@ "ZAR" :> 1850
    @@ "NGN" :> 155000 @@ "KES" :> 12900

DefaultCloudMultipliers ==
    "AWS" :> 100 @@ "Azure" :> 105 @@ "GCP" :> 95 @@ "Oracle Cloud" :> 90
    @@ "IBM Cloud" :> 110 @@ "DigitalOcean" :> 60 @@ "Linode" :> 65
    @@ "Vultr" :> 62 @@ "Hetzner" :> 50 @@ "Tata IZO" :> 85 @@ "CtrlS" :> 80
    @@ "Netmagic" :> 90 @@ "Yotta" :> 75 @@ "Alibaba Cloud" :> 70
    @@ "OVHcloud" :> 55 @@ "Scaleway" :> 58 @@ "Vercel" :> 125

(***************************************************************************)
(* Python and BSON values.  A document is the ordered list of its          *)
(* <<key, value>> fields; a value is a mapping (dict) or a non-mapping     *)
(* (None, a number, a string), written Scalar.                             *)
(***************************************************************************)
Dict(m) == [kind |-> "dict", map |-> m, val |-> ""]

Scalar(v) == [kind |-> "scalar", map |-> <<>>, val |-> v]

isinstance_dict(v) == v.kind = "dict"

NoDoc == <<>>

\* dict.get(key, default)
dict_get(d, key, default) == IF key \in DOMAIN d THEN d[key] ELSE default

\* dict.update(items) with a mapping: keys of items are set, the others stay
dict_update_replacing(d, items) == items

dict_update(d, items) ==
    [k \in (DOMAIN d) \cup (DOMAIN items) |->
        IF k \in DOMAIN items THEN items[k] ELSE d[k]]

\* the keys of a document, and the value of one of them
DocKeys(doc) == {doc[n][1] : n \in DOMAIN doc}

DocValue(doc, key) == doc[CHOOSE n \in DOMAIN doc : doc[n][1] = key][2]

(***************************************************************************)
(* Documents the pricing collection can hold for _id "latest_pricing".     *)
(* The refresh job writes the fields providers, currency_rates and meta    *)
(* only; category blocks and multi_cloud reach the document from outside   *)
(* the service, and $set leaves them in place.                             *)
(***************************************************************************)
IdField == <<"_id", Scalar("latest_pricing")>>

\* category blocks, an unknown key and both special blocks, all well formed
SeedMerge ==
    << IdField,
       <<"compute", Dict("t3.micro" :> 9000 @@ "m5.large" :> 70000)>>,
       <<"providers", Dict("AWS" :> 1)>>,
       <<"multi_cloud", Dict("AWS" :> 100 @@ "Civo" :> 70)>>,
       <<"storage", Dict("s3_gb" :> 25)>>,
       <<"currency_rates", Dict("EUR" :> 95 @@ "XYZ" :> 200)>> >>

\* a non-mapping multi_cloud block between two category blocks
SeedBadMultiCloud ==
    << IdField,
       <<"compute", Dict("t3.micro" :> 8000)>>,
       <<"multi_cloud", Scalar("None")>>,
       <<"storage", Dict("s3_gb" :> 30)>> >>

\* a non-mapping currency_rates block ahead of everything else
SeedBadRatesFirst ==
    << IdField,
       <<"currency_rates", Scalar("None")>>,
       <<"cdn", Dict("cloudfront_gb" :> 90)>> >>

\* a known category holding a non-mapping, then a category block
SeedNonDictCategory ==
    << IdField,
       <<"compute", Scalar("None")>>,
       <<"cache", Dict("redis_t4g_large" :> 96000)>> >>

SeedDocs == {SeedMerge, SeedBadMultiCloud, SeedBadRatesFirst, SeedNonDictCategory}

(***************************************************************************)
(* State.                                                                  *)
(***************************************************************************)
VARIABLES
    PRICING,            \* PricingService.PRICING
    CURRENCY_RATES,     \* PricingService.CURRENCY_RATES
    CLOUD_MULTIPLIERS,  \* PricingService.CLOUD_MULTIPLIERS
    Database_db,        \* Database.db: "None" or "connected"
    pricing,            \* db.pricing: the latest_pricing document, or NoDoc
    pricing_history,    \* db.pricing_history: the archived snapshots
    job_status,         \* db.job_status: the pricing_job_status document, or NoDoc
    now,                \* what datetime.now() returns next
    inserted,           \* documents insert_one has given an _id so far
    scheduler_running,  \* the APScheduler cron job is registered and started
    pc,                 \* where each coroutine waits
    data,               \* load_dynamic_prices: the document find_one returned
    idx,                \* load_dynamic_prices: fields of data already applied
    outcome,            \* load_dynamic_prices: how the last call ended
    job,                \* fetch_latest_prices: the locals of the run
    run,                \* fetch_latest_prices: what the last run did and returned
    runs,               \* refresh-job runs started so far
    seeds,              \* outside replacements of the stored document so far
    faults,             \* database and network operations that raised so far
    snapshot,           \* the table as the last finished reload left it
    estimateRead,       \* the table the last estimate call read, the snapshot
                        \* of that moment and the coroutines then reloading
    ret,                \* the last get_price / convert call since the table
                        \* last changed, and its result
    payload,            \* POST /estimate: architecture, traffic and currency
    result,             \* what the last estimate call since the table last
                        \* changed returned
    held,               \* the ETag header of the last 200 answer, as the
                        \* client keeps it
    http_response       \* the last answer of POST /estimate

vars == << PRICING, CURRENCY_RATES, CLOUD_MULTIPLIERS, Database_db, pricing,
           pricing_history, job_status, now, inserted, scheduler_running, pc,
           data, idx, outcome, job, run, runs, seeds, faults, snapshot,
           estimateRead, ret, payload, result, held, http_response >>

estVars == << payload, result, held, http_response >>

tableVars == << PRICING, CURRENCY_RATES, CLOUD_MULTIPLIERS >>

dbVars == << pricing, pricing_history, job_status >>

\* the three class-level maps as one value
Table ==
    [PRICING |-> PRICING, CURRENCY_RATES |-> CURRENCY_RATES,
     CLOUD_MULTIPLIERS |-> CLOUD_MULTIPLIERS]

\* lifespan: application startup; sched: the cron job; admin: a request to
\* POST /admin/refresh-prices; caller: a direct call of load_dynamic_prices
Procs == {"lifespan", "sched", "admin", "caller"}

Jobs == {"sched", "admin"}

NoJob ==
    [currency_rates |-> <<>>, last_updated |-> 0, current |-> NoDoc,
     archived_at |-> 0, history_count |-> 0, oldest |-> 0]

NoRun ==
    [returned |-> "none", wrote |-> FALSE, tracked |-> "none",
     recorded |-> FALSE, error |-> "none", archived |-> FALSE,
     replaced |-> NoDoc]

NoRead == [seen |-> FALSE, table |-> <<>>, snapshot |-> <<>>, loading |-> {}]

NoRet == [fn |-> "none", args |-> <<>>, value |-> 0]

NoPayload == [architecture |-> "", traffic |-> <<>>, currency |-> <<>>]

NoResult == [called |-> FALSE]

NoEtag == <<>>

NoResponse == [status_code |-> 0]

InitCommon ==
    /\ PRICING = DefaultPricing
    /\ CURRENCY_RATES = DefaultCurrencyRates
    /\ CLOUD_MULTIPLIERS = DefaultCloudMultipliers
    /\ pricing_history = {}
    /\ job_status = NoDoc
    /\ now = 1
    /\ inserted = 0
    /\ scheduler_running = FALSE
    /\ data = [p \in Procs |-> NoDoc]
    /\ idx = [p \in Procs |-> 0]
    /\ outcome = [p \in Procs |-> "none"]
    /\ job = [p \in Jobs |-> NoJob]
    /\ run = [p \in Jobs |-> NoRun]
    /\ runs = 0
    /\ seeds = 0
    /\ faults = 0
    /\ snapshot = [PRICING |-> DefaultPricing,
                   CURRENCY_RATES |-> DefaultCurrencyRates,
                   CLOUD_MULTIPLIERS |-> DefaultCloudMultipliers]
    /\ estimateRead = NoRead
    /\ ret = NoRet
    /\ result = NoResult
    /\ held = NoEtag
    /\ http_response = NoResponse

\* whether the operation now completing may raise, and the count after it
MayRaise == IF faults < MaxFaults THEN BOOLEAN ELSE {FALSE}

Raised(raises) == IF raises THEN faults + 1 ELSE faults

(***************************************************************************)
(* PricingService.load_dynamic_prices                                      *)
(***************************************************************************)
\* one pass of the loop body (lines 118-128) over the field category: items.
\* dict.update of a non-mapping (None, a number) raises, which the loop does
\* not catch.
LoopBodyAddingCategories(t, category, items) ==
    IF isinstance_dict(items)
    THEN [raised |-> FALSE,
          table |-> [t EXCEPT !.PRICING =
                        (category :> dict_update(dict_get(@, category, <<>>),
                                                 items.map)) @@ @]]
    ELSE [raised |-> category \in {"multi_cloud", "currency_rates"}, table |-> t]

LoopBody(t, category, items) ==
    IF category \in DOMAIN t.PRICING /\ isinstance_dict(items)
    THEN [raised |-> FALSE,
          table |-> [t EXCEPT !.PRICING[category] = dict_update(@, items.map)]]
    ELSE IF category = "multi_cloud"
    THEN IF isinstance_dict(items)
         THEN [raised |-> FALSE,
               table |-> [t EXCEPT !.CLOUD_MULTIPLIERS = dict_update(@, items.map)]]
         ELSE [raised |-> TRUE, table |-> t]
    ELSE IF category = "currency_rates"
    THEN IF isinstance_dict(items)
         THEN [raised |-> FALSE,
               table |-> [t EXCEPT !.CURRENCY_RATES = dict_update(@, items.map)]]
         ELSE [raised |-> TRUE, table |-> t]
    ELSE [raised |-> FALSE, table |-> t]

\* the loop over data.items() from field first to field last, stopping at the
\* field that raises; done counts the fields whose pass completed
RECURSIVE RunLoop(_, _, _, _)
RunLoop(t, doc, first, last) ==
    IF first > last
    THEN [raised |-> FALSE, table |-> t, done |-> last]
    ELSE LET r == LoopBody(t, doc[first][1], doc[first][2])
         IN  IF r.raised
             THEN [raised |-> TRUE, table |-> t, done |-> first - 1]
             ELSE RunLoop(r.table, doc, first + 1, last)

\* the loop holds no await: started after `done` fields, it runs on to the
\* last field of the document before any other coroutine is scheduled
LoopRunsToYieldingEachField(doc, done) == done + 1

LoopRunsTo(doc, done) == Len(doc)

\* where the caller of load_dynamic_prices goes on when the call returns:
\* lifespan starts the scheduler and begins serving, the others are finished
LoadReturns(p) ==
    /\ pc' = [pc EXCEPT ![p] = IF p = "lifespan" THEN "serving" ELSE "idle"]
    /\ scheduler_running' = IF p = "lifespan" THEN TRUE ELSE scheduler_running

\* lines 109-113 and 137-138: no database, or find_one is sent
LoadEnters(p) ==
    IF Database_db = "None"
    THEN /\ outcome' = [outcome EXCEPT ![p] = "nodb"]
         /\ LoadReturns(p)
    ELSE /\ outcome' = [outcome EXCEPT ![p] = "none"]
         /\ pc' = [pc EXCEPT ![p] = "load_find"]
         /\ UNCHANGED scheduler_running

\* find_one completes: it raises, finds nothing, or returns the document
LoadFind(p) ==
    /\ pc[p] = "load_find"
    /\ \E raises \in MayRaise :
         /\ faults' = Raised(raises)
         /\ IF raises
            THEN /\ outcome' = [outcome EXCEPT ![p] = "failed"]
                 /\ LoadReturns(p)
                 /\ UNCHANGED data
            ELSE IF pricing = NoDoc
            THEN /\ outcome' = [outcome EXCEPT ![p] = "nodoc"]
                 /\ LoadReturns(p)
                 /\ UNCHANGED data
            ELSE /\ data' = [data EXCEPT ![p] = pricing]
                 /\ pc' = [pc EXCEPT ![p] = "load_apply"]
                 /\ UNCHANGED << outcome, scheduler_running >>
    /\ idx' = [idx EXCEPT ![p] = 0]
    /\ UNCHANGED << tableVars, Database_db, dbVars, now, inserted, job, run, runs,
                    seeds, snapshot, estimateRead, ret >>
    /\ UNCHANGED estVars

\* the coroutine resumes with the document and runs the loop
LoadApply(p) ==
    /\ pc[p] = "load_apply"
    /\ LET last == LoopRunsTo(data[p], idx[p])
           r == RunLoop(Table, data[p], idx[p] + 1, last)
       IN  /\ PRICING' = r.table.PRICING
           /\ CURRENCY_RATES' = r.table.CURRENCY_RATES
           /\ CLOUD_MULTIPLIERS' = r.table.CLOUD_MULTIPLIERS
           /\ IF r.raised \/ last = Len(data[p])
              THEN /\ outcome' = [outcome EXCEPT
                                    ![p] = IF r.raised THEN "failed" ELSE "applied"]
                   /\ snapshot' = r.table
                   /\ data' = [data EXCEPT ![p] = NoDoc]
                   /\ idx' = [idx EXCEPT ![p] = 0]
                   /\ LoadReturns(p)
              ELSE /\ idx' = [idx EXCEPT ![p] = r.done]
                   /\ UNCHANGED << outcome, snapshot, data, pc, scheduler_running >>
    /\ ret' = NoRet
    /\ UNCHANGED << Database_db, dbVars, now, inserted, job, run, runs, seeds,
                    faults, estimateRead >>
    /\ result' = NoResult
    /\ UNCHANGED << payload, held, http_response >>

(***************************************************************************)
(* PricingService.get_price and PricingService.convert                     *)
(***************************************************************************)
\* a str is the sequence of its characters; Str gives the key it spells
RECURSIVE Str(_)
Str(s) == IF s = <<>> THEN "" ELSE Head(s) \o Str(Tail(s))

UpperOf ==
    "a" :> "A" @@ "b" :> "B" @@ "c" :> "C" @@ "d" :> "D" @@ "e" :> "E"
    @@ "f" :> "F" @@ "g" :> "G" @@ "h" :> "H" @@ "i" :> "I" @@ "j" :> "J"
    @@ "k" :> "K" @@ "l" :> "L" @@ "m" :> "M" @@ "n" :> "N" @@ "o" :> "O"
    @@ "p" :> "P" @@ "q" :> "Q" @@ "r" :> "R" @@ "s" :> "S" @@ "t" :> "T"
    @@ "u" :> "U" @@ "v" :> "V" @@ "w" :> "W" @@ "x" :> "X" @@ "y" :> "Y"
    @@ "z" :> "Z"

\* str.upper()
str_upper_identity(s) == s

str_upper(s) == [n \in DOMAIN s |-> dict_get(UpperOf, s[n], s[n])]

get_price_default_one(category, item) ==
    dict_get(dict_get(PRICING, category, <<>>), item, 1000)

get_price(category, item) ==
    dict_get(dict_get(PRICING, category, <<>>), item, 0)

\* amount_usd in thousandths, the rate in hundredths (1.0 is 100): the
\* result is in 1/100000 of the target currency
convert(amount_usd, target_currency) ==
    LET rate == dict_get(CURRENCY_RATES, Str(str_upper(target_currency)), 100)
    IN  amount_usd * rate

\* the arguments the calls below are made with
QueryCategories == {"compute", "cache", "currency_rates", "gpu"}

QueryItems == {"t3.micro", "m5.large", "redis_t4g_large", "EUR", "a100"}

QueryAmounts == {0, 1500}

QueryCurrencies ==
    { <<"U", "S", "D">>, <<"E", "U", "R">>, <<"e", "u", "r">>,
      <<"E", "u", "R">>, <<"x", "y", "z">>, <<"Q", "Q", "Q">>, <<"e", "u">>,
      <<>> }

GetPriceCall(category, item) ==
    /\ ret' = [fn |-> "get_price", args |-> <<category, item>>,
               value |-> get_price(category, item)]
    /\ UNCHANGED << tableVars, Database_db, dbVars, now, inserted, scheduler_running,
                    pc,
                    data, idx, outcome, job, run, runs, seeds, faults, snapshot,
                    estimateRead >>
    /\ UNCHANGED estVars

ConvertCall(amount_usd, target_currency) ==
    /\ ret' = [fn |-> "convert", args |-> <<amount_usd, target_currency>>,
               value |-> convert(amount_usd, target_currency)]
    /\ UNCHANGED << tableVars, Database_db, dbVars, now, inserted, scheduler_running,
                    pc,
                    data, idx, outcome, job, run, runs, seeds, faults, snapshot,
                    estimateRead >>
    /\ UNCHANGED estVars

(***************************************************************************)
(* The reload on its own: load_dynamic_prices called in any database       *)
(* state, any number of times, with the stored document replaced from      *)
(* outside between calls.                                                  *)
(***************************************************************************)
CallLoad ==
    /\ pc["caller"] = "idle"
    /\ LoadEnters("caller")
    /\ UNCHANGED << tableVars, Database_db, dbVars, now, inserted, data, idx, job, run,
                    runs, seeds, faults, snapshot, estimateRead, ret >>
    /\ UNCHANGED estVars

SeedDocument(doc) ==
    /\ Database_db = "connected"
    /\ seeds < MaxSeeds
    /\ doc /= pricing
    /\ pricing' = doc
    /\ seeds' = seeds + 1
    /\ UNCHANGED << tableVars, Database_db, pricing_history, job_status, now,
                    inserted, scheduler_running, pc, data, idx, outcome, job, run, runs,
                    faults, snapshot, estimateRead, ret >>
    /\ UNCHANGED estVars

InitReload ==
    /\ InitCommon
    /\ pricing \in {NoDoc} \cup SeedDocs
    /\ Database_db \in {"None", "connected"}
    /\ pc = [p \in Procs |-> "idle"]
    /\ payload = NoPayload

NextReload ==
    \/ CallLoad
    \/ LoadFind("caller")
    \/ LoadApply("caller")
    \/ \E doc \in {NoDoc} \cup SeedDocs : SeedDocument(doc)
    \/ \E category \in QueryCategories, item \in QueryItems :
           GetPriceCall(category, item)
    \/ \E amount \in QueryAmounts, currency \in QueryCurrencies :
           ConvertCall(amount, currency)

SpecReload == InitReload /\ [][NextReload]_vars

(***************************************************************************)
(* PricingFetcher.fetch_latest_prices, with archive_current_pricing and    *)
(* track_job_status                                                        *)
(***************************************************************************)
\* what https://api.exchangerate-api.com/v4/latest/USD answers: no usable
\* body, or a body with a rates map
NoRates == Scalar("error")

RatesBody == Dict("USD" :> 101 @@ "EUR" :> 97 @@ "XAU" :> 1)

\* how the network part of a run can fail: not at all, in the rates request
\* (caught in fetch_currency_rates), or outside every handler of the fetchers
SourceFailures ==
    IF faults < MaxFaults THEN {"none", "rates", "raise"} ELSE {"none"}

supported_currencies ==
    {"USD", "CAD", "MXN", "BRL", "ARS", "EUR", "GBP", "CHF", "INR", "JPY",
     "CNY", "KRW", "SGD", "HKD", "AUD", "NZD", "AED", "SAR", "ZAR"}

\* fetch_currency_rates: None (NoDoc) on failure, else USD 1.0 and the
\* supported currencies the body names
fetch_currency_rates_with_body_usd(response) ==
    IF ~isinstance_dict(response)
    THEN NoDoc
    ELSE [c \in supported_currencies \cap DOMAIN response.map |-> response.map[c]]

fetch_currency_rates(response) ==
    IF ~isinstance_dict(response)
    THEN NoDoc
    ELSE LET rates == response.map
         IN  [c \in {"USD"} \cup (supported_currencies \cap DOMAIN rates) |->
                 IF c = "USD" THEN 100 ELSE rates[c]]

\* lines 421-425: the rates used when the fetch failed
FallbackRates ==
    "USD" :> 100 @@ "INR" :> 8400 @@ "EUR" :> 92 @@ "GBP" :> 79
    @@ "JPY" :> 15000 @@ "CNY" :> 720 @@ "AUD" :> 152

\* lines 428-443.  The nested content of providers is read by nothing in the
\* service and is kept as the set of provider names; meta keeps last_updated.
pricing_data(currency_rates, last_updated) ==
    << <<"providers",
         Dict([n \in {"AWS", "Azure", "GCP", "DigitalOcean", "Hetzner", "Linode",
                      "Vultr", "Oracle Cloud", "IBM Cloud"} |-> 1])>>,
       <<"currency_rates", Dict(currency_rates)>>,
       <<"meta", Dict("last_updated" :> last_updated)>> >>

\* update_one({"_id": "latest_pricing"}, {"$set": fields}, upsert=True)
RECURSIVE SetFields(_, _)
SetFields(doc, fields) ==
    IF fields = <<>>
    THEN doc
    ELSE LET f == Head(fields)
             set == IF f[1] \in DocKeys(doc)
                    THEN [n \in DOMAIN doc |-> IF doc[n][1] = f[1] THEN f ELSE doc[n]]
                    ELSE Append(doc, f)
         IN  SetFields(set, Tail(fields))

Upsert(doc, fields) == SetFields(IF doc = NoDoc THEN <<IdField>> ELSE doc, fields)

\* current.pop("_id", None)
PopId(doc) == SelectSeq(doc, LAMBDA f : f[1] /= "_id")

\* find_one(sort=[("archived_at", 1)]): the documents it may return
OldestOf(history) ==
    {h \in history : \A g \in history : h.archived_at <= g.archived_at}

\* line 348: the retention test
KeepsAtMostOneMore(history_count) == history_count > 2

KeepsAtMost(history_count) == history_count >= 2

\* fetch_latest_prices is under way in coroutine q
InRun(q) == pc[q] \notin {"idle", "load_find", "load_apply"}

\* a run begins: the cron trigger fires, or the admin request arrives; run
\* keeps what the runs under way have done so far
JobBegin(p) ==
    /\ pc[p] = "idle"
    /\ pc["lifespan"] = "serving"
    /\ p = "sched" => scheduler_running
    /\ runs < MaxRuns
    /\ runs' = runs + 1
    /\ pc' = [pc EXCEPT ![p] = "fetch"]
    /\ run' = [q \in Jobs |-> IF q /= p /\ InRun(q) THEN run[q] ELSE NoRun]
    /\ UNCHANGED << tableVars, Database_db, dbVars, now, inserted,
                    scheduler_running, data, idx, outcome, job, seeds, faults,
                    snapshot, estimateRead, ret >>
    /\ UNCHANGED estVars

\* lines 409-447 and 494-506: the fetches end.  An exception outside the
\* database block goes to the outer handler; its `if db:` tests the truth
\* value of the database object, and should that test raise, the bare
\* except silences it and no status is written.
JobFetch(p) ==
    /\ pc[p] = "fetch"
    /\ \E failure \in SourceFailures, truthy \in BOOLEAN :
         LET raises == failure = "raise"
             response == IF failure = "rates" THEN NoRates ELSE RatesBody
             fetched == fetch_currency_rates(response)
             currency_rates == IF fetched = NoDoc THEN FallbackRates ELSE fetched
         IN  /\ faults' = Raised(failure /= "none")
             /\ IF raises
                THEN /\ run' = [run EXCEPT
                                  ![p].error = "source",
                                  ![p].returned =
                                      IF Database_db = "connected" /\ truthy
                                      THEN "none" ELSE "False"]
                     /\ pc' = [pc EXCEPT
                                 ![p] = IF Database_db = "connected" /\ truthy
                                        THEN "track_outer" ELSE "idle"]
                     /\ UNCHANGED job
                ELSE IF Database_db = "None"
                THEN /\ run' = [run EXCEPT ![p].error = "nodb",
                                           ![p].returned = "False"]
                     /\ pc' = [pc EXCEPT ![p] = "idle"]
                     /\ UNCHANGED job
                ELSE /\ job' = [job EXCEPT ![p].currency_rates = currency_rates,
                                           ![p].last_updated = now]
                     /\ pc' = [pc EXCEPT ![p] = "arch_find"]
                     /\ UNCHANGED run
    /\ UNCHANGED << tableVars, Database_db, dbVars, now, inserted,
                    scheduler_running, data, idx, outcome, runs, seeds, snapshot,
                    estimateRead, ret >>
    /\ UNCHANGED estVars

\* archive_current_pricing, lines 338-342: find_one of the current document;
\* an exception anywhere in the archive is logged and the run goes on to
\* update_one (lines 361-363, 450-453)
JobArchFind(p) ==
    /\ pc[p] = "arch_find"
    /\ \E raises \in MayRaise :
         /\ faults' = Raised(raises)
         /\ IF raises \/ pricing = NoDoc
            THEN /\ pc' = [pc EXCEPT ![p] = "update"]
                 /\ UNCHANGED << job, now >>
            ELSE /\ job' = [job EXCEPT ![p].current = PopId(pricing),
                                       ![p].archived_at = now]
                 /\ now' = now + 1
                 /\ pc' = [pc EXCEPT ![p] = "arch_count"]
    /\ UNCHANGED << tableVars, Database_db, dbVars, inserted, scheduler_running,
                    data, idx, outcome, run, runs, seeds, snapshot, estimateRead,
                    ret >>
    /\ UNCHANGED estVars

\* lines 345-348: count_documents and the retention test
JobArchCount(p) ==
    /\ pc[p] = "arch_count"
    /\ \E raises \in MayRaise :
         /\ faults' = Raised(raises)
         /\ IF raises
            THEN /\ pc' = [pc EXCEPT ![p] = "update"]
                 /\ UNCHANGED job
            ELSE LET history_count == Cardinality(pricing_history)
                 IN  /\ job' = [job EXCEPT ![p].history_count = history_count]
                     /\ pc' = [pc EXCEPT ![p] = IF KeepsAtMost(history_count)
                                                THEN "arch_oldest"
                                                ELSE "arch_insert"]
    /\ UNCHANGED << tableVars, Database_db, dbVars, now, inserted,
                    scheduler_running, data, idx, outcome, run, runs, seeds,
                    snapshot, estimateRead, ret >>
    /\ UNCHANGED estVars

\* lines 350-353: find_one sorted by archived_at
JobArchOldest(p) ==
    /\ pc[p] = "arch_oldest"
    /\ \E raises \in MayRaise :
         /\ faults' = Raised(raises)
         /\ IF raises
            THEN /\ pc' = [pc EXCEPT ![p] = "update"]
                 /\ UNCHANGED job
            ELSE IF pricing_history = {}
            THEN /\ pc' = [pc EXCEPT ![p] = "arch_insert"]
                 /\ UNCHANGED job
            ELSE \E oldest \in OldestOf(pricing_history) :
                   /\ job' = [job EXCEPT ![p].oldest = oldest._id]
                   /\ pc' = [pc EXCEPT ![p] = "arch_delete"]
    /\ UNCHANGED << tableVars, Database_db, dbVars, now, inserted,
                    scheduler_running, data, idx, outcome, run, runs, seeds,
                    snapshot, estimateRead, ret >>
    /\ UNCHANGED estVars

\* line 354: delete_one by _id
JobArchDelete(p) ==
    /\ pc[p] = "arch_delete"
    /\ \E raises \in MayRaise :
         /\ faults' = Raised(raises)
         /\ IF raises
            THEN /\ pc' = [pc EXCEPT ![p] = "update"]
                 /\ UNCHANGED pricing_history
            ELSE /\ pricing_history' =
                       {h \in pricing_history : h._id /= job[p].oldest}
                 /\ pc' = [pc EXCEPT ![p] = "arch_insert"]
    /\ UNCHANGED << tableVars, Database_db, pricing, job_status, now, inserted,
                    scheduler_running, data, idx, outcome, job, run, runs, seeds,
                    snapshot, estimateRead, ret >>
    /\ UNCHANGED estVars

\* line 358: insert_one of the copy; the archive returns and update_one is sent
JobArchInsert(p) ==
    /\ pc[p] = "arch_insert"
    /\ \E raises \in MayRaise :
         /\ faults' = Raised(raises)
         /\ IF raises
            THEN UNCHANGED << pricing_history, inserted, run >>
            ELSE /\ pricing_history' = pricing_history \cup
                       {[_id |-> inserted + 1, archived_at |-> job[p].archived_at,
                         fields |-> job[p].current]}
                 /\ inserted' = inserted + 1
                 /\ run' = [run EXCEPT ![p].archived = TRUE]
    /\ pc' = [pc EXCEPT ![p] = "update"]
    /\ UNCHANGED << tableVars, Database_db, pricing, job_status, now,
                    scheduler_running, data, idx, outcome, job, runs, seeds,
                    snapshot, estimateRead, ret >>
    /\ UNCHANGED estVars

\* lines 453-493: update_one with upsert, then the status to record
JobUpdate(p) ==
    /\ pc[p] = "update"
    /\ \E raises \in MayRaise :
         /\ faults' = Raised(raises)
         /\ IF raises
            THEN /\ pc' = [pc EXCEPT ![p] = "track_failed"]
                 /\ run' = [run EXCEPT ![p].error = "db"]
                 /\ UNCHANGED pricing
            ELSE LET matched_count == IF pricing = NoDoc THEN 0 ELSE 1
                     upserted == pricing = NoDoc
                 IN  /\ pricing' = Upsert(pricing,
                                          pricing_data(job[p].currency_rates,
                                                       job[p].last_updated))
                     /\ run' = [run EXCEPT ![p].wrote = TRUE,
                                           ![p].replaced = pricing]
                     /\ pc' = [pc EXCEPT ![p] = IF matched_count > 0 \/ upserted
                                                THEN "track_success"
                                                ELSE "track_warning"]
    /\ UNCHANGED << tableVars, Database_db, pricing_history, job_status, now,
                    inserted, scheduler_running, data, idx, outcome, job, runs,
                    seeds, snapshot, estimateRead, ret >>
    /\ UNCHANGED estVars

\* the status each call of track_job_status is given
TrackStatus(at) ==
    CASE at = "track_success" -> "success"
      [] at = "track_warning" -> "warning"
      [] OTHER -> "failed"

\* the value fetch_latest_prices returns once the status call is over
ReturnsAlwaysTrue(at) == "True"

Returns(at) == IF at = "track_success" THEN "True" ELSE "False"

\* track_job_status's update_one completes (an exception in it is logged and
\* dropped, lines 398-400) and fetch_latest_prices returns.  The cron job
\* ends there; refresh_prices (main.py 729-739) calls load_dynamic_prices
\* when the run returned True and answers 500 otherwise.
JobTrack(p) ==
    /\ pc[p] \in {"track_success", "track_warning", "track_failed", "track_outer"}
    /\ \E raises \in MayRaise :
         /\ faults' = Raised(raises)
         /\ job_status' =
              IF raises
              THEN job_status
              ELSE [status |-> TrackStatus(pc[p]), last_run |-> now,
                    error |-> IF pc[p] = "track_success"
                              THEN "none" ELSE run[p].error]
         /\ run' = [run EXCEPT ![p].tracked = TrackStatus(pc[p]),
                               ![p].recorded = ~raises,
                               ![p].returned = Returns(pc[p])]
    /\ job' = [job EXCEPT ![p] = NoJob]
    /\ IF p = "admin" /\ Returns(pc[p]) = "True"
       THEN LoadEnters(p)
       ELSE /\ pc' = [pc EXCEPT ![p] = "idle"]
            /\ UNCHANGED << outcome, scheduler_running >>
    /\ UNCHANGED << tableVars, Database_db, pricing, pricing_history, now,
                    inserted, data, idx, runs, seeds, snapshot, estimateRead,
                    ret >>
    /\ UNCHANGED estVars

(***************************************************************************)
(* lifespan (main.py 58-94) and the estimate request                       *)
(***************************************************************************)
\* startup: SKIP_STARTUP_DB or a failing connect leaves Database.db None and
\* the scheduler off; else the database is set, the indexes are created and
\* load_dynamic_prices sends its find_one
LifespanStartup ==
    /\ pc["lifespan"] = "startup"
    /\ \E connects \in BOOLEAN :
         IF connects
         THEN /\ Database_db' = "connected"
              /\ pc' = [pc EXCEPT !["lifespan"] = "load_find"]
         ELSE /\ Database_db' = "None"
              /\ pc' = [pc EXCEPT !["lifespan"] = "serving"]
    /\ UNCHANGED << tableVars, dbVars, now, inserted, scheduler_running, data,
                    idx, outcome, job, run, runs, seeds, faults, snapshot,
                    estimateRead, ret >>
    /\ UNCHANGED estVars

\* POST /estimate: the handler and EstimationService.estimate hold no await;
\* the call reads the table as it stands in one step
Estimate ==
    /\ pc["lifespan"] = "serving"
    /\ estimateRead' =
           [seen |-> TRUE, table |-> Table, snapshot |-> snapshot,
            loading |-> {p \in Procs : pc[p] \in {"load_find", "load_apply"}}]
    /\ UNCHANGED << tableVars, Database_db, dbVars, now, inserted,
                    scheduler_running, pc, data, idx, outcome, job, run, runs,
                    seeds, faults, snapshot, ret >>
    /\ UNCHANGED estVars

Init ==
    /\ InitCommon
    /\ pricing \in {NoDoc, SeedMerge, SeedBadMultiCloud}
    /\ Database_db = "None"
    /\ pc = [p \in Procs |-> IF p = "lifespan" THEN "startup" ELSE "idle"]
    /\ payload = NoPayload

JobStep(p) ==
    \/ JobFetch(p)
    \/ JobArchFind(p)
    \/ JobArchCount(p)
    \/ JobArchOldest(p)
    \/ JobArchDelete(p)
    \/ JobArchInsert(p)
    \/ JobUpdate(p)
    \/ JobTrack(p)

\* the runs one after another: a run begins only when no other is under way
JobBeginAlone(p) ==
    /\ \A q \in Jobs : ~InRun(q)
    /\ JobBegin(p)

(***************************************************************************)
(* The service: startup, then estimate requests interleaved with the cron  *)
(* job and admin refresh requests, the refresh-job runs one after another. *)
(***************************************************************************)
Next ==
    \/ LifespanStartup
    \/ \E p \in {"lifespan", "admin"} : LoadFind(p) \/ LoadApply(p)
    \/ \E p \in Jobs : JobBeginAlone(p) \/ JobStep(p)
    \/ Estimate

Spec == Init /\ [][Next]_vars

(***************************************************************************)
(* Properties.                                                             *)
(***************************************************************************)
\* the table a reload of doc leaves when it starts from table t
Overlay(t, doc) == RunLoop(t, doc, 1, Len(doc)).table

\* the refresh job or a reload is at an await in coroutine q
Quiet == \A q \in Procs : pc[q] \in {"idle", "serving"}

\* C1: an estimate that runs while load_dynamic_prices is under way reads the
\* table as a finished reload (or construction) left it: never a table to
\* which only part of a snapshot has been applied.
C1_EstimateReadsWholeSnapshot ==
    estimateRead.seen => estimateRead.table = estimateRead.snapshot

\* C1 witness: an estimate ran while the admin reload waited for its
\* document, and that reload then changed the table the estimate had read.
C1_Witness ==
    /\ estimateRead.seen
    /\ "admin" \in estimateRead.loading
    /\ outcome["admin"] = "applied"
    /\ estimateRead.table /= Table

\* C2: once a run of the refresh job has returned True and nothing is under
\* way, whether the cron job or the admin endpoint started it, the in-memory
\* table is the stored snapshot overlaid on the table before: applying the
\* stored document again changes nothing.
C2_TableFollowsEverySuccessfulRun ==
    \A p \in Jobs :
        (run[p].returned = "True" /\ Quiet) => Overlay(Table, pricing) = Table

\* C3: with the runs one after another from an empty history, the history
\* never holds more than two snapshots, and a snapshot leaves the history
\* only as the one with the smallest archived_at.
C3_HistoryKeepsTwoDroppingOldest ==
    [][ /\ Cardinality(pricing_history') <= 2
        /\ \A h \in pricing_history \ pricing_history' :
               \A g \in pricing_history : h.archived_at <= g.archived_at ]_vars

\* C3 witness: the third archive has been inserted, two snapshots are kept
\* and the first one archived is gone.
C3_Witness ==
    /\ inserted = 3
    /\ Cardinality(pricing_history) = 2
    /\ \A h \in pricing_history : h._id /= 1

\* C4: when a run has replaced a stored snapshot, a copy of the snapshot it
\* replaced is in the history, also when a step of the archive failed.
C4_ReplacedSnapshotIsArchived ==
    \A p \in Jobs :
        (run[p].wrote /\ run[p].replaced /= NoDoc) =>
            \E h \in pricing_history : h.fields = PopId(run[p].replaced)

\* C5: a reload that fails (the database read raises, or the loop raises on
\* a malformed document) leaves PRICING, CURRENCY_RATES and CLOUD_MULTIPLIERS
\* exactly as they were before the call.
C5_FailedReloadChangesNothing ==
    [][ \A p \in Procs :
            (pc[p] \in {"load_find", "load_apply"} /\ pc'[p] /= pc[p]
             /\ outcome'[p] = "failed") => Table' = Table ]_vars

\* C6: the table is never empty: every default category and every default
\* item key stays in PRICING whatever is reloaded, and a reload that finds
\* no database or no document changes nothing.
C6_DefaultsRemain ==
    [][ /\ \A c \in DOMAIN DefaultPricing :
               /\ c \in DOMAIN PRICING'
               /\ DOMAIN DefaultPricing[c] \subseteq DOMAIN PRICING'[c]
        /\ \A p \in Procs :
               outcome'[p] \in {"nodb", "nodoc"} => Table' = Table ]_vars

\* C6 witness: a reload found no document after an earlier reload had
\* overlaid a snapshot on the defaults.
C6_Witness ==
    /\ outcome["caller"] = "nodoc"
    /\ PRICING /= DefaultPricing
    /\ DOMAIN PRICING = DOMAIN DefaultPricing

\* the document names key with a mapping as its value
Names(doc, key) == key \in DocKeys(doc) /\ isinstance_dict(DocValue(doc, key))

\* new is old with exactly the entries of items set
MergedPointwise(old, new, items) ==
    /\ DOMAIN new = DOMAIN old \cup DOMAIN items
    /\ \A k \in DOMAIN new :
           new[k] = IF k \in DOMAIN items THEN items[k] ELSE old[k]

\* old merged with the block the document has under key, or old itself when
\* the document has no such block
FramedBy(doc, key, old, new) ==
    IF Names(doc, key)
    THEN MergedPointwise(old, new, DocValue(doc, key).map)
    ELSE new = old

\* C7: a reload that succeeds changes only what the snapshot names: a named
\* category keeps its other items, an unnamed category and an unnamed
\* special block keep everything, no category is added or removed, and so a
\* top-level key that is neither a category nor multi_cloud nor
\* currency_rates changes nothing.
C7_ReloadMergesOnlyNamed ==
    [][ \A p \in Procs :
            (pc[p] = "load_apply" /\ pc'[p] /= "load_apply"
             /\ outcome'[p] = "applied") =>
                /\ DOMAIN PRICING' = DOMAIN PRICING
                /\ \A c \in DOMAIN PRICING :
                       FramedBy(data[p], c, PRICING[c], PRICING'[c])
                /\ FramedBy(data[p], "multi_cloud",
                            CLOUD_MULTIPLIERS, CLOUD_MULTIPLIERS')
                /\ FramedBy(data[p], "currency_rates",
                            CURRENCY_RATES, CURRENCY_RATES') ]_vars

\* C7 witness: a reload applied a snapshot with a category block and the
\* unknown key providers: the named price changed, a new item arrived and
\* an item the snapshot does not name kept its price.
C7_Witness ==
    /\ outcome["caller"] = "applied"
    /\ PRICING.compute["t3.micro"] = 9000
    /\ "m5.large" \in DOMAIN PRICING.compute
    /\ PRICING.compute["t3.medium"] = DefaultPricing.compute["t3.medium"]
    /\ "providers" \notin DOMAIN PRICING

C9_GetPriceStoredOrZero ==
    ret.fn = "get_price" =>
        LET category == ret.args[1]
            item == ret.args[2]
        IN  ret.value = IF category \in DOMAIN PRICING
                           /\ item \in DOMAIN PRICING[category]
                        THEN PRICING[category][item]
                        ELSE 0

\* C9 witness: after a reload changed the compute category, get_price was
\* asked for an item that category does not hold and answered 0.0.
C9_Witness ==
    /\ ret.fn = "get_price"
    /\ ret.args = <<"compute", "a100">>
    /\ ret.value = 0
    /\ PRICING.compute["t3.micro"] = 9000

\* the codes the rate table can hold, spelled out: the defaults
\* (pricing_service.py 146-203) and XYZ of SeedMerge
CurrencyCodes ==
    { <<"U", "S", "D">>, <<"C", "A", "D">>, <<"M", "X", "N">>,
      <<"B", "R", "L">>, <<"A", "R", "S">>, <<"C", "L", "P">>,
      <<"C", "O", "P">>, <<"P", "E", "N">>, <<"E", "U", "R">>,
      <<"G", "B", "P">>, <<"C", "H", "F">>, <<"S", "E", "K">>,
      <<"N", "O", "K">>, <<"D", "K", "K">>, <<"P", "L", "N">>,
      <<"C", "Z", "K">>, <<"H", "U", "F">>, <<"R", "O", "N">>,
      <<"B", "G", "N">>, <<"H", "R", "K">>, <<"T", "R", "Y">>,
      <<"R", "U", "B">>, <<"I", "N", "R">>, <<"J", "P", "Y">>,
      <<"C", "N", "Y">>, <<"K", "R", "W">>, <<"S", "G", "D">>,
      <<"H", "K", "D">>, <<"T", "W", "D">>, <<"T", "H", "B">>,
      <<"M", "Y", "R">>, <<"I", "D", "R">>, <<"P", "H", "P">>,
      <<"V", "N", "D">>, <<"P", "K", "R">>, <<"B", "D", "T">>,
      <<"L", "K", "R">>, <<"A", "U", "D">>, <<"N", "Z", "D">>,
      <<"A", "E", "D">>, <<"S", "A", "R">>, <<"Q", "A", "R">>,
      <<"K", "W", "D">>, <<"B", "H", "D">>, <<"I", "L", "S">>,
      <<"E", "G", "P">>, <<"Z", "A", "R">>, <<"N", "G", "N">>,
      <<"K", "E", "S">>, <<"X", "Y", "Z">> }

CasePairs ==
    { <<"a", "A">>, <<"b", "B">>, <<"c", "C">>, <<"d", "D">>, <<"e", "E">>,
      <<"f", "F">>, <<"g", "G">>, <<"h", "H">>, <<"i", "I">>, <<"j", "J">>,
      <<"k", "K">>, <<"l", "L">>, <<"m", "M">>, <<"n", "N">>, <<"o", "O">>,
      <<"p", "P">>, <<"q", "Q">>, <<"r", "R">>, <<"s", "S">>, <<"t", "T">>,
      <<"u", "U">>, <<"v", "V">>, <<"w", "W">>, <<"x", "X">>, <<"y", "Y">>,
      <<"z", "Z">> }

SameIgnoringCase(a, b) ==
    /\ Len(a) = Len(b)
    /\ \A n \in DOMAIN a :
           \/ a[n] = b[n]
           \/ <<a[n], b[n]>> \in CasePairs
           \/ <<b[n], a[n]>> \in CasePairs

\* C10: convert(amount, currency) is amount times the rate stored for the
\* currency, whatever the case of the code's letters, and the amount itself
\* (rate 1.0) when the table holds no rate for the code.
C10_ConvertByStoredRate ==
    /\ DOMAIN CURRENCY_RATES \subseteq {Str(k) : k \in CurrencyCodes}
    /\ ret.fn = "convert" =>
           LET amount_usd == ret.args[1]
               stored == {k \in CurrencyCodes :
                             /\ Str(k) \in DOMAIN CURRENCY_RATES
                             /\ SameIgnoringCase(ret.args[2], k)}
           IN  IF stored = {}
               THEN ret.value = amount_usd * 100
               ELSE \A k \in stored :
                        ret.value = amount_usd * CURRENCY_RATES[Str(k)]

\* C10 witness: after a reload stored EUR 0.95, convert(1.50, "eur") gave
\* 1.50 times 0.95.
C10_Witness ==
    /\ ret.fn = "convert"
    /\ ret.args = <<1500, <<"e", "u", "r">> >>
    /\ ret.value = 1500 * 95

\* C11: convert(x, "USD") is x in every state the refresh-job runs and the
\* reloads reach: the USD rate is 1.0 at construction, the job stores USD 1.0
\* whatever the rates body says, and a reload of what the job stored keeps it.
C11_UsdConvertsToItself ==
    /\ CURRENCY_RATES["USD"] = 100
    /\ \A x \in QueryAmounts :
           /\ convert(x, <<"U", "S", "D">>) = x * 100
           /\ convert(x, <<"u", "s", "d">>) = x * 100

\* C11 witness: a run stored the rates of a body naming USD 1.01 and EUR
\* 0.97, the admin reload applied them, and the USD rate is still 1.0.
C11_Witness ==
    /\ outcome["admin"] = "applied"
    /\ CURRENCY_RATES["EUR"] = 97
    /\ CURRENCY_RATES["USD"] = 100

(***************************************************************************)
(* EstimationService (src/estimation_service.py).                          *)
(*                                                                         *)
(* Units.  A cost in USD is held in thousandths of a USD, as the prices    *)
(* are; storage_per_user_mb in tenths of a MB; peak_traffic_multiplier in  *)
(* hundredths; the multipliers the price table holds (video streaming,     *)
(* region) in thousandths, as get_price returns them.  A converted amount  *)
(* is the USD amount times the rate in hundredths.  Each block gives, with *)
(* its cost and the keys it adds to the requirements, whether every        *)
(* quotient it took was whole (exact): the model follows the calls whose   *)
(* amounts are whole in these units, so that no rounding enters.           *)
(***************************************************************************)
\* a * m / d, and whether it is whole
RECURSIVE gcd(_, _)
gcd(a, b) == IF b = 0 THEN a ELSE gcd(b, a % b)

Scale(a, m, d) ==
    LET g == gcd(d, m)
        mr == m \div g
        dr == d \div g
    IN  [v |-> (a \div dr) * mr + ((a % dr) * mr) \div dr,
         exact |-> ((a % dr) * mr) % dr = 0]

max(a, b) == IF a >= b THEN a ELSE b

\* a quotient kept in one bit
int_div_wrapping(a, d) == (a % (2 * d)) \div d

\* int(a / d) and a // d for a >= 0
int_div(a, d) == a \div d

\* a standby charged at half the running cost
multi_az_cost_half_more(cost) == cost + cost \div 2

\* lines 22-25: Multi-AZ, cost *= 2.0
multi_az_cost(cost) == cost * 2

\* lines 10-48
calculate_database_cost(traffic, db_config, base_db_cost) ==
    LET replicas == db_config.read_replicas > 0
        replica_cost == db_config.read_replicas * get_price("database", "read_replica")
        cost1 == IF replicas THEN base_db_cost + replica_cost ELSE base_db_cost
        cost2 == IF db_config.multi_az THEN multi_az_cost(cost1) ELSE cost1
        \* backup_gb = DAU * MB / 1024 * 0.2, MB in tenths
        backup_cost == Scale(traffic.daily_active_users * traffic.storage_per_user_mb * 2,
                             get_price("database", "backup_gb"), 102400)
        cost3 == IF db_config.backup_enabled THEN cost2 + backup_cost.v ELSE cost2
        cached == db_config.cache_type \notin {"None", ""} /\ db_config.cache_size_gb > 0
        cache_cost ==
            IF ~cached THEN 0
            ELSE IF db_config.cache_size_gb <= 1
            THEN get_price("cache", db_config.cache_type \o "_t4g_micro")
            ELSE IF db_config.cache_size_gb <= 3
            THEN get_price("cache", db_config.cache_type \o "_t4g_small")
            ELSE get_price("cache", db_config.cache_type \o "_t4g_medium")
    IN  [cost |-> cost3 + cache_cost,
         reqs |-> (IF replicas THEN {"Read Replicas"} ELSE {})
                  \cup (IF db_config.multi_az THEN {"Multi-AZ"} ELSE {})
                  \cup (IF db_config.backup_enabled THEN {"Backups"} ELSE {})
                  \cup (IF cached THEN {"Cache"} ELSE {}),
         exact |-> db_config.backup_enabled => backup_cost.exact]

\* lines 50-79
calculate_cdn_cost(cdn_config) ==
    IF ~cdn_config.enabled
    THEN [cost |-> 0, reqs |-> {}, exact |-> TRUE]
    ELSE LET data_cost == cdn_config.data_transfer_gb
                              * get_price("cdn", cdn_config.provider \o "_gb")
             edge_requests == Scale(cdn_config.data_transfer_gb, 100, 1024)
             edge_cost == Scale(edge_requests.v,
                                get_price("cdn", cdn_config.provider \o "_edge_function_1m"),
                                1000000)
             cost1 == IF cdn_config.edge_functions
                      THEN data_cost + edge_cost.v ELSE data_cost
             multiplier == get_price("cdn", "video_streaming_multiplier")
             cost2 == Scale(cost1, multiplier, 1000)
         IN  [cost |-> IF cdn_config.video_streaming THEN cost2.v ELSE cost1,
              reqs |-> {"CDN Transfer"}
                       \cup (IF cdn_config.edge_functions THEN {"Edge Functions"} ELSE {})
                       \cup (IF cdn_config.video_streaming THEN {"Video Streaming"} ELSE {}),
              exact |-> /\ cdn_config.edge_functions =>
                               edge_requests.exact /\ edge_cost.exact
                        /\ cdn_config.video_streaming => cost2.exact]

\* lines 81-116
calculate_messaging_cost(msg_config, traffic) ==
    IF ~msg_config.enabled
    THEN [cost |-> 0, reqs |-> {}, exact |-> TRUE]
    ELSE LET monthly_messages == msg_config.messages_per_day * 30
             sqs == Scale(monthly_messages,
                          get_price("messaging", "sqs_1m_requests"), 1000000)
             brokers == max(3, int_div(msg_config.messages_per_day, 1000000) + 1)
             shards == max(1, int_div(int_div(msg_config.messages_per_day, 86400),
                                      1000) + 1)
             known == msg_config.type \in {"sqs", "kafka", "rabbitmq", "kinesis"}
         IN  [cost |->
                  CASE msg_config.type = "sqs" -> sqs.v
                    [] msg_config.type = "kafka" ->
                           brokers * get_price("messaging", "kafka_broker")
                    [] msg_config.type = "rabbitmq" ->
                           get_price("messaging", "rabbitmq_m5_large")
                    [] msg_config.type = "kinesis" ->
                           shards * get_price("messaging", "kinesis_shard")
                    [] OTHER -> 0,
              reqs |-> (IF known THEN {"Queue"} ELSE {})
                       \cup (IF msg_config.dlq_enabled THEN {"DLQ"} ELSE {}),
              exact |-> msg_config.type = "sqs" => sqs.exact]

\* str.lower()
LowerOf ==
    [u \in {UpperOf[l] : l \in DOMAIN UpperOf} |->
        CHOOSE l \in DOMAIN UpperOf : UpperOf[l] = u]

str_lower(s) == [n \in DOMAIN s |-> dict_get(LowerOf, s[n], s[n])]

\* lines 151-155: the standards of the list that are recognized, lower-cased
RECURSIVE compliance_cost(_)
compliance_cost(compliance) ==
    IF compliance = <<>>
    THEN 0
    ELSE LET standard_lower == Str(str_lower(Head(compliance)))
         IN  (IF standard_lower \in {"soc2", "iso27001", "hipaa", "pci_dss"}
              THEN get_price("security", standard_lower \o "_monthly")
              ELSE 0)
             + compliance_cost(Tail(compliance))

\* lines 118-157
calculate_security_cost(sec_config, traffic) ==
    LET monthly_requests ==
            traffic.daily_active_users * traffic.api_requests_per_user * 30
        waf_rules_cost == 10 * get_price("security", "waf_rule")
        waf_requests_cost == Scale(monthly_requests,
                                   get_price("security", "waf_request_1m"), 1000000)
        recognized == \E n \in DOMAIN sec_config.compliance :
                          Str(str_lower(sec_config.compliance[n]))
                              \in {"soc2", "iso27001", "hipaa", "pci_dss"}
    IN  [cost |-> (IF sec_config.waf_enabled
                   THEN waf_rules_cost + waf_requests_cost.v ELSE 0)
                  + (IF sec_config.vpn_enabled
                     THEN get_price("security", "vpn_connection") ELSE 0)
                  + (IF sec_config.ddos_protection
                     THEN get_price("security", "shield_advanced") ELSE 0)
                  + (IF sec_config.secrets_manager
                     THEN 20 * get_price("security", "secrets_manager_secret") ELSE 0)
                  + compliance_cost(sec_config.compliance),
         reqs |-> (IF sec_config.waf_enabled THEN {"WAF"} ELSE {})
                  \cup (IF sec_config.vpn_enabled THEN {"VPN"} ELSE {})
                  \cup (IF sec_config.ddos_protection THEN {"DDoS"} ELSE {})
                  \cup (IF sec_config.ssl_certificates > 0 THEN {"SSL"} ELSE {})
                  \cup (IF sec_config.secrets_manager THEN {"Secrets"} ELSE {})
                  \cup (IF recognized THEN {"Compliance"} ELSE {}),
         exact |-> sec_config.waf_enabled => waf_requests_cost.exact]

calculate_monitoring_cost_flat_apm(mon_config, instances, traffic) ==
    LET monthly_requests ==
            traffic.daily_active_users * traffic.api_requests_per_user * 30
        cloudwatch == instances * 10 * get_price("monitoring", "cloudwatch_metric")
                      + instances * get_price("monitoring", "cloudwatch_log_gb")
        datadog == instances * get_price("monitoring", "datadog_host")
                   + (IF mon_config.apm_enabled THEN 50000 ELSE 0)
        newrelic == instances * get_price("monitoring", "newrelic_host")
                    + (IF mon_config.apm_enabled
                       THEN instances * get_price("monitoring", "newrelic_apm_host")
                       ELSE 0)
        trace_cost == Scale(monthly_requests,
                            get_price("monitoring", "xray_trace_1m"), 1000000)
        known == mon_config.provider \in {"cloudwatch", "datadog", "newrelic"}
    IN  [cost |-> (CASE mon_config.provider = "cloudwatch" -> cloudwatch
                     [] mon_config.provider = "datadog" -> datadog
                     [] mon_config.provider = "newrelic" -> newrelic
                     [] OTHER -> 0)
                  + (IF mon_config.distributed_tracing THEN trace_cost.v ELSE 0),
         reqs |-> (IF known THEN {"Monitoring"} ELSE {})
                  \cup (IF mon_config.distributed_tracing THEN {"Tracing"} ELSE {}),
         exact |-> mon_config.distributed_tracing => trace_cost.exact]

\* lines 159-195; the Datadog APM surcharge is 50 USD
calculate_monitoring_cost(mon_config, instances, traffic) ==
    LET monthly_requests ==
            traffic.daily_active_users * traffic.api_requests_per_user * 30
        cloudwatch == instances * 10 * get_price("monitoring", "cloudwatch_metric")
                      + instances * get_price("monitoring", "cloudwatch_log_gb")
        datadog == instances * get_price("monitoring", "datadog_host")
                   + (IF mon_config.apm_enabled THEN instances * 50000 ELSE 0)
        newrelic == instances * get_price("monitoring", "newrelic_host")
                    + (IF mon_config.apm_enabled
                       THEN instances * get_price("monitoring", "newrelic_apm_host")
                       ELSE 0)
        trace_cost == Scale(monthly_requests,
                            get_price("monitoring", "xray_trace_1m"), 1000000)
        known == mon_config.provider \in {"cloudwatch", "datadog", "newrelic"}
    IN  [cost |-> (CASE mon_config.provider = "cloudwatch" -> cloudwatch
                     [] mon_config.provider = "datadog" -> datadog
                     [] mon_config.provider = "newrelic" -> newrelic
                     [] OTHER -> 0)
                  + (IF mon_config.distributed_tracing THEN trace_cost.v ELSE 0),
         reqs |-> (IF known THEN {"Monitoring"} ELSE {})
                  \cup (IF mon_config.distributed_tracing THEN {"Tracing"} ELSE {}),
         exact |-> mon_config.distributed_tracing => trace_cost.exact]

\* lines 197-238
calculate_cicd_cost(cicd_config) ==
    LET minutes == cicd_config.builds_per_month * 10
        known == cicd_config.provider \in {"github_actions", "gitlab_ci", "jenkins"}
    IN  [cost |-> (CASE cicd_config.provider = "github_actions" ->
                            minutes * get_price("cicd", "github_actions_linux_minute")
                     [] cicd_config.provider = "gitlab_ci" ->
                            minutes * get_price("cicd", "gitlab_ci_minute")
                     [] cicd_config.provider = "jenkins" ->
                            get_price("cicd", "jenkins_m5_large")
                     [] OTHER -> 0)
                  + (IF cicd_config.container_registry
                     THEN 50 * get_price("cicd", "ecr_storage_gb") ELSE 0)
                  + (IF cicd_config.security_scanning
                     THEN 5 * get_price("cicd", "code_scanning_user") ELSE 0)
                  + (IF cicd_config.artifact_storage_gb > 0
                     THEN cicd_config.artifact_storage_gb
                              * get_price("cicd", "artifact_storage_gb")
                     ELSE 0),
         reqs |-> (IF known THEN {"CI/CD"} ELSE {})
                  \cup (IF cicd_config.container_registry
                        THEN {"Container Registry"} ELSE {})
                  \cup (IF cicd_config.security_scanning THEN {"Security Scan"} ELSE {})
                  \cup (IF cicd_config.artifact_storage_gb > 0
                        THEN {"Artifacts"} ELSE {}),
         exact |-> TRUE]

\* the block is off by its flag alone
multi_region_disabled_by_flag(mr_config) == ~mr_config.enabled

\* line 243: not mr_config.enabled or mr_config.regions <= 1
multi_region_disabled(mr_config) ==
    IF mr_config.enabled THEN mr_config.regions <= 1 ELSE TRUE

calculate_multi_region_cost_overhead_first(mr_config, base_infra_cost) ==
    IF multi_region_disabled(mr_config)
    THEN [cost |-> 0, reqs |-> {}, exact |-> TRUE]
    ELSE LET additional_regions == mr_config.regions - 1
             region_multiplier == get_price("replication", "region_multiplier")
             region_cost == Scale(base_infra_cost * additional_regions,
                                  region_multiplier, 1000)
             transfer_cost == mr_config.cross_region_transfer_gb
                                  * get_price("replication", "cross_region_gb")
             active_active == mr_config.replication_type = "active_active"
             cost1 == IF active_active
                      THEN Scale(region_cost.v, 13, 10)
                      ELSE [v |-> region_cost.v, exact |-> TRUE]
             cost2 == IF mr_config.cross_region_transfer_gb > 0
                      THEN cost1.v + transfer_cost ELSE cost1.v
         IN  [cost |-> cost2,
              reqs |-> {"Regions"}
                       \cup (IF mr_config.cross_region_transfer_gb > 0
                             THEN {"Cross-Region Transfer"} ELSE {})
                       \cup (IF active_active THEN {"HA Setup"} ELSE {}),
              exact |-> region_cost.exact /\ cost1.exact]

\* lines 240-267
calculate_multi_region_cost(mr_config, base_infra_cost) ==
    IF multi_region_disabled(mr_config)
    THEN [cost |-> 0, reqs |-> {}, exact |-> TRUE]
    ELSE LET additional_regions == mr_config.regions - 1
             region_multiplier == get_price("replication", "region_multiplier")
             region_cost == Scale(base_infra_cost * additional_regions,
                                  region_multiplier, 1000)
             transfer_cost == mr_config.cross_region_transfer_gb
                                  * get_price("replication", "cross_region_gb")
             cost1 == IF mr_config.cross_region_transfer_gb > 0
                      THEN region_cost.v + transfer_cost ELSE region_cost.v
             cost2 == Scale(cost1, 13, 10)
             active_active == mr_config.replication_type = "active_active"
         IN  [cost |-> IF active_active THEN cost2.v ELSE cost1,
              reqs |-> {"Regions"}
                       \cup (IF mr_config.cross_region_transfer_gb > 0
                             THEN {"Cross-Region Transfer"} ELSE {})
                       \cup (IF active_active THEN {"HA Setup"} ELSE {}),
              exact |-> region_cost.exact /\ (active_active => cost2.exact)]

\* float('nan'), which the validator of peak_traffic_multiplier lets through
\* (schemas.py 135-143: nan < 1.0 and nan > 10.0 are both false); it stands
\* outside the hundredths
nan == 0 - 1

\* a < b and a > b on floats: false when either side is nan
float_lt(a, b) == a /= nan /\ b /= nan /\ a < b

float_gt(a, b) == a /= nan /\ b /= nan /\ a > b

\* lines 299-342: instances, compute cost, base database cost and the
\* requirement keys of the architecture
ArchitectureBase(architecture, traffic) ==
    LET daily_requests == traffic.daily_active_users * traffic.api_requests_per_user
        requests_per_month == daily_requests * 30
        lambda_cost == Scale(requests_per_month,
                             get_price("compute", "lambda_1m_requests"), 1000000)
    IN  CASE architecture = "monolith" ->
               \* peak_rps / 40 = daily_requests * multiplier / (86400 * 40)
               \* int(nan) raises ValueError
               LET raised == traffic.peak_traffic_multiplier = nan
                   instances ==
                       IF raised THEN 1
                       ELSE max(1, int_div(daily_requests
                                               * traffic.peak_traffic_multiplier,
                                           86400 * 40 * 100) + 1)
               IN  [instances |-> instances,
                    compute_cost |-> instances * get_price("compute", "t3.medium"),
                    database_cost |-> get_price("database", "rds_db.t3.medium"),
                    reqs |-> {"Compute", "Database"},
                    exact |-> TRUE,
                    raised |-> raised]
          [] architecture = "microservices" ->
               LET services_count == 5
                   instances_per_service ==
                       max(1, int_div(traffic.daily_active_users, 50000))
                   instances == services_count * instances_per_service
               IN  [instances |-> instances,
                    compute_cost |-> instances * get_price("compute", "t3.micro"),
                    database_cost |-> get_price("database", "rds_db.t3.medium")
                                      + get_price("database", "dynamodb_unit") * 10,
                    reqs |-> {"Compute", "Database"},
                    exact |-> TRUE,
                    raised |-> FALSE]
          [] architecture = "serverless" ->
               [instances |-> max(1, int_div(requests_per_month, 1000000)),
                compute_cost |-> lambda_cost.v,
                database_cost |-> get_price("database", "dynamodb_unit") * 20,
                reqs |-> {"Compute", "Database"},
                exact |-> lambda_cost.exact,
                    raised |-> FALSE]
          [] OTHER ->
               LET instances == max(1, int_div(traffic.daily_active_users, 20000))
               IN  [instances |-> instances,
                    compute_cost |-> instances * get_price("compute", "t3.medium"),
                    database_cost |-> get_price("database", "rds_db.t3.medium"),
                    reqs |-> {"Compute"},
                    exact |-> TRUE,
                    raised |-> FALSE]

\* the Runway entry capped from 240 months on
RunwayCappedFrom240(funding_converted, total) ==
    LET months == int_div(funding_converted, total)
        tenths == Scale(funding_converted, 10, total)
    IN  IF months >= 240
        THEN [text |-> "Indefinite (>20 years)", tenths |-> 0, exact |-> TRUE]
        ELSE [text |-> "months", tenths |-> tenths.v, exact |-> tenths.exact]

\* lines 455-462: the Runway entry; months = funding_converted / total
Runway(funding_converted, total) ==
    LET months == int_div(funding_converted, total)
        over == IF months = 240 THEN funding_converted % total > 0 ELSE months > 240
        tenths == Scale(funding_converted, 10, total)
    IN  IF over
        THEN [text |-> "Indefinite (>20 years)", tenths |-> 0, exact |-> TRUE]
        ELSE [text |-> "months", tenths |-> tenths.v, exact |-> tenths.exact]

\* pricing_service.py 205-262: CURRENCY_SYMBOLS, a symbol outside ASCII
\* written by its code points
CURRENCY_SYMBOLS ==
    "USD" :> "$" @@ "CAD" :> "C$" @@ "MXN" :> "Mex$" @@ "BRL" :> "R$"
    @@ "ARS" :> "ARS$" @@ "CLP" :> "CLP$" @@ "COP" :> "COL$" @@ "PEN" :> "S/"
    @@ "EUR" :> "U+20AC" @@ "GBP" :> "U+00A3" @@ "CHF" :> "CHF"
    @@ "SEK" :> "kr" @@ "NOK" :> "kr" @@ "DKK" :> "kr"
    @@ "PLN" :> "U+007A U+0142" @@ "CZK" :> "U+004B U+010D" @@ "HUF" :> "Ft"
    @@ "RON" :> "lei" @@ "BGN" :> "U+043B U+0432" @@ "HRK" :> "kn"
    @@ "TRY" :> "U+20BA" @@ "RUB" :> "U+20BD" @@ "INR" :> "U+20B9"
    @@ "JPY" :> "U+00A5" @@ "CNY" :> "U+00A5" @@ "KRW" :> "U+20A9"
    @@ "SGD" :> "S$" @@ "HKD" :> "HK$" @@ "TWD" :> "NT$" @@ "THB" :> "U+0E3F"
    @@ "MYR" :> "RM" @@ "IDR" :> "Rp" @@ "PHP" :> "U+20B1"
    @@ "VND" :> "U+20AB" @@ "PKR" :> "U+20A8" @@ "BDT" :> "U+09F3"
    @@ "LKR" :> "Rs" @@ "AUD" :> "A$" @@ "NZD" :> "NZ$"
    @@ "AED" :> "U+062F U+002E U+0625" @@ "SAR" :> "U+FDFC"
    @@ "QAR" :> "U+0631 U+002E U+0642" @@ "KWD" :> "U+062F U+002E U+0643"
    @@ "BHD" :> "U+062F U+002E U+0628" @@ "ILS" :> "U+20AA"
    @@ "EGP" :> "U+00A3" @@ "ZAR" :> "R" @@ "NGN" :> "U+20A6"
    @@ "KES" :> "KSh"

\* PricingService.CURRENCY_SYMBOLS.get(currency, '$'): the code as given
CURRENCY_SYMBOLS_get(currency) == dict_get(CURRENCY_SYMBOLS, Str(currency), "$")

\* the nearest whole number to a / d, the even one of two equally near, as
\* the format specifications .0f and .4f round
round_half_even(a, d) ==
    LET q == a \div d
        twice == 2 * (a % d)
    IN  IF twice < d THEN q
        ELSE IF twice > d THEN q + 1
        ELSE IF q % 2 = 0 THEN q ELSE q + 1

\* lines 416-445: the savings in whole units of the currency, under the
\* symbol found for the code
optimization_suggestions(architecture, compute_usd, storage_usd, currency) ==
    LET symbol == CURRENCY_SYMBOLS_get(currency)
    IN  (IF compute_usd > 50000
         THEN {[title |-> "Reserved Instances (1-Year)", symbol |-> symbol,
                saving |-> round_half_even(convert(compute_usd * 4, currency),
                                           1000000)]}
         ELSE {})
        \cup (IF architecture \in {"microservices", "hybrid"}
              THEN {[title |-> "Spot Instances", symbol |-> symbol,
                     saving |-> round_half_even(convert(compute_usd * 21, currency),
                                                10000000)]}
              ELSE {})
        \cup (IF storage_usd > 20000
              THEN {[title |-> "S3 Lifecycle Policies", symbol |-> symbol,
                     saving |-> round_half_even(convert(storage_usd * 3, currency),
                                                1000000)]}
              ELSE {})

\* line 379: the total in USD, when the multi-region cost is left out
total_usd_of_base_only(base_total, multi_region_cost) == base_total

\* line 379: total_usd = base_total + multi_region_cost
total_usd(base_total, multi_region_cost) == base_total + multi_region_cost

\* lines 282-492.  locals holds the USD amounts and the instance count the
\* call computed on its way; infrastructure_requirements is kept as the set
\* of its keys, business_metrics as the set of its entries.
estimate(architecture, traffic, currency) ==
    LET base == ArchitectureBase(architecture, traffic)
        \* storage_gb = DAU * MB / 1024, MB in tenths
        storage == Scale(traffic.daily_active_users * traffic.storage_per_user_mb,
                         get_price("storage", "s3_gb"), 10240)
        networking_cost == get_price("networking", "load_balancer")
        db == calculate_database_cost(traffic, traffic.database, base.database_cost)
        cdn == calculate_cdn_cost(traffic.cdn)
        msg == calculate_messaging_cost(traffic.messaging, traffic)
        sec == calculate_security_cost(traffic.security, traffic)
        mon == calculate_monitoring_cost(traffic.monitoring, base.instances, traffic)
        cicd == calculate_cicd_cost(traffic.cicd)
        base_total == base.compute_cost + db.cost + storage.v + networking_cost
                      + cdn.cost + msg.cost + sec.cost + mon.cost + cicd.cost
        mr == calculate_multi_region_cost(traffic.multi_region, base_total)
        total == total_usd(base_total, mr.cost)
        monthly_cost ==
            [compute |-> convert(base.compute_cost, currency),
             database |-> convert(db.cost, currency),
             storage |-> convert(storage.v, currency),
             networking |-> convert(networking_cost, currency),
             cdn |-> convert(cdn.cost, currency),
             messaging |-> convert(msg.cost, currency),
             security |-> convert(sec.cost, currency),
             monitoring |-> convert(mon.cost, currency),
             cicd |-> convert(cicd.cost, currency),
             multi_region |-> convert(mr.cost, currency),
             total |-> convert(total, currency)]
        funded == traffic.funding_available > 0 /\ monthly_cost.total > 0
        runway == Runway(convert(traffic.funding_available, currency),
                         monthly_cost.total)
    IN  [architecture |-> architecture,
         traffic_input |-> traffic,
         raised |-> base.raised,
         monthly_cost |-> monthly_cost,
         infrastructure_requirements |->
             base.reqs \cup {"Storage"} \cup db.reqs \cup cdn.reqs \cup msg.reqs
             \cup sec.reqs \cup mon.reqs \cup cicd.reqs \cup mr.reqs,
         optimization_suggestions |->
             optimization_suggestions(architecture, base.compute_cost, storage.v,
                                      currency),
         business_metrics |->
             (IF traffic.daily_active_users > 0
              THEN {[key |-> "Infrastructure Cost per User",
                     symbol |-> CURRENCY_SYMBOLS_get(currency),
                     ten_thousandths |->
                         round_half_even(monthly_cost.total,
                                         traffic.daily_active_users * 10)]}
              ELSE {})
             \cup (IF funded
                   THEN {[key |-> "Runway", text |-> runway.text,
                          tenths |-> runway.tenths]}
                   ELSE {}),
         locals |->
             [instances |-> base.instances,
              compute_cost |-> base.compute_cost,
              database_cost |-> db.cost,
              storage_cost |-> storage.v,
              networking_cost |-> networking_cost,
              cdn_cost |-> cdn.cost,
              messaging_cost |-> msg.cost,
              security_cost |-> sec.cost,
              monitoring_cost |-> mon.cost,
              cicd_cost |-> cicd.cost,
              multi_region_cost |-> mr.cost,
              base_total |-> base_total,
              total_usd |-> total],
         exact |-> /\ base.exact /\ storage.exact /\ db.exact /\ cdn.exact
                   /\ msg.exact /\ sec.exact /\ mon.exact /\ cicd.exact /\ mr.exact
                   /\ funded => runway.exact]

(***************************************************************************)
(* The estimate call on its own: one payload, the price table as           *)
(* constructed or as reloads of a stored document leave it.                *)
(***************************************************************************)
\* schemas.py 34-82: the defaults of the configuration blocks, with the
\* fields the estimation reads
DefaultDatabase ==
    [read_replicas |-> 0, backup_enabled |-> FALSE, multi_az |-> FALSE,
     cache_type |-> "None", cache_size_gb |-> 0]

DefaultCDN ==
    [enabled |-> FALSE, provider |-> "cloudfront", data_transfer_gb |-> 0,
     edge_functions |-> FALSE, video_streaming |-> FALSE]

DefaultMessaging ==
    [enabled |-> FALSE, type |-> "sqs", messages_per_day |-> 0,
     dlq_enabled |-> FALSE]

DefaultSecurity ==
    [waf_enabled |-> FALSE, vpn_enabled |-> FALSE, ddos_protection |-> FALSE,
     ssl_certificates |-> 0, compliance |-> <<>>, secrets_manager |-> FALSE]

DefaultMonitoring ==
    [provider |-> "cloudwatch", apm_enabled |-> FALSE,
     distributed_tracing |-> FALSE]

DefaultCICD ==
    [provider |-> "github_actions", builds_per_month |-> 100,
     container_registry |-> FALSE, security_scanning |-> FALSE,
     artifact_storage_gb |-> 0]

DefaultMultiRegion ==
    [enabled |-> FALSE, regions |-> 1, replication_type |-> "active_passive",
     cross_region_transfer_gb |-> 0]

\* schemas.py 84-100: a validated TrafficInput with default blocks
TrafficInput(dau, requests, storage_mb, multiplier) ==
    [daily_active_users |-> dau,
     api_requests_per_user |-> requests,
     storage_per_user_mb |-> storage_mb,
     peak_traffic_multiplier |-> multiplier,
     funding_available |-> 0,
     database |-> DefaultDatabase,
     cdn |-> DefaultCDN,
     messaging |-> DefaultMessaging,
     security |-> DefaultSecurity,
     monitoring |-> DefaultMonitoring,
     cicd |-> DefaultCICD,
     multi_region |-> DefaultMultiRegion]

ArchitectureType == {"monolith", "microservices", "serverless", "hybrid"}

\* daily active users around the steps of the instance counts: 50000 per
\* microservice instance, 20000 per hybrid instance, and 69120 users at 50
\* requests a day, which are 40 requests a second
Users == {1, 20000, 49999, 50000, 50001, 69120, 100000, 138240}

Loads ==
    {TrafficInput(dau, requests, storage_mb, multiplier) :
        dau \in Users, requests \in {0, 50}, storage_mb \in {0, 20},
        multiplier \in {100, 150}}

\* the traffic the block variations are applied to: 1080 GB of storage
LoadedTraffic == TrafficInput(69120, 50, 160, 100)

\* ten users who send nothing, for the smallest monthly total
IdleTraffic == TrafficInput(10, 0, 0, 100)

DatabaseConfigs ==
    {[read_replicas |-> n, backup_enabled |-> b, multi_az |-> az,
      cache_type |-> c[1], cache_size_gb |-> c[2]] :
        n \in {0, MaxReplicas}, b \in BOOLEAN, az \in BOOLEAN,
        c \in {<<"None", 0>>, <<"redis", 0>>, <<"redis", 1>>, <<"redis", 3>>,
               <<"redis", 4>>, <<"memcached", 2>>, <<"memcached", 4>>}}

CDNConfigs ==
    {[enabled |-> e, provider |-> p, data_transfer_gb |-> gb,
      edge_functions |-> f, video_streaming |-> v] :
        e \in BOOLEAN, p \in {"cloudfront", "akamai"}, gb \in {0, 51200},
        f \in BOOLEAN, v \in BOOLEAN}

MessagingConfigs ==
    {[enabled |-> e, type |-> t, messages_per_day |-> n, dlq_enabled |-> d] :
        e \in BOOLEAN, t \in {"sqs", "kafka", "rabbitmq", "kinesis", "nats"},
        n \in {0, 4000000}, d \in BOOLEAN}

SecurityConfigs ==
    {[waf_enabled |-> w, vpn_enabled |-> v, ddos_protection |-> FALSE,
      ssl_certificates |-> n, compliance |-> c, secrets_manager |-> s] :
        w \in BOOLEAN, v \in BOOLEAN, n \in {0, 2}, s \in BOOLEAN,
        c \in {<<>>, << <<"s", "o", "c", "2">> >>,
               << <<"H", "I", "P", "A", "A">>, <<"g", "d", "p", "r">> >>}}
    \cup {[DefaultSecurity EXCEPT !.ddos_protection = TRUE]}
    \cup {[DefaultSecurity EXCEPT !.compliance = c] :
              c \in {<< <<"i", "s", "o", "2", "7", "0", "0", "1">> >>,
                     << <<"P", "C", "I", "_", "D", "S", "S">> >>}}

MonitoringConfigs ==
    {[provider |-> p, apm_enabled |-> a, distributed_tracing |-> t] :
        p \in {"cloudwatch", "datadog", "newrelic", "grafana"},
        a \in BOOLEAN, t \in BOOLEAN}

CICDConfigs ==
    {[provider |-> p, builds_per_month |-> n, container_registry |-> r,
      security_scanning |-> r, artifact_storage_gb |-> gb] :
        p \in {"github_actions", "gitlab_ci", "jenkins", "circleci"},
        n \in {0, 100}, r \in BOOLEAN, gb \in {0, 50}}

MultiRegionConfigs ==
    {[enabled |-> e, regions |-> n, replication_type |-> t,
      cross_region_transfer_gb |-> gb] :
        e \in BOOLEAN, n \in 1..MaxRegions,
        t \in {"active_active", "active_passive"}, gb \in {0, 200}}

Fundings == {0, 3270000, 7848000, 7849000}

TrafficInputs ==
    Loads
    \cup {[LoadedTraffic EXCEPT !.database = c] : c \in DatabaseConfigs}
    \cup {[LoadedTraffic EXCEPT !.cdn = c] : c \in CDNConfigs}
    \cup {[LoadedTraffic EXCEPT !.messaging = c] : c \in MessagingConfigs}
    \cup {[LoadedTraffic EXCEPT !.security = c] : c \in SecurityConfigs}
    \cup {[LoadedTraffic EXCEPT !.monitoring = c] : c \in MonitoringConfigs}
    \cup {[LoadedTraffic EXCEPT !.cicd = c] : c \in CICDConfigs}
    \cup {[LoadedTraffic EXCEPT !.multi_region = c] : c \in MultiRegionConfigs}
    \cup {[t EXCEPT !.funding_available = f] :
             t \in {IdleTraffic, LoadedTraffic}, f \in Fundings}
    \cup {[t EXCEPT !.peak_traffic_multiplier = nan] :
             t \in {IdleTraffic, LoadedTraffic}}

Currencies == {<<"U", "S", "D">>, <<"E", "U", "R">>, <<"e", "u", "r">>,
               <<"Q", "Q", "Q">>}

Payloads ==
    [architecture : ArchitectureType, traffic : TrafficInputs,
     currency : Currencies]

\* EstimationService.estimate(architecture, traffic, currency) is called and
\* leaves a rate it read in the table rounded up
EstimateCallKeepingRate ==
    LET r == estimate(payload.architecture, payload.traffic, payload.currency)
    IN  /\ r.exact
        /\ result' = [called |-> TRUE, value |-> r, again |-> result.called]
        /\ CURRENCY_RATES' = [c \in DOMAIN CURRENCY_RATES |->
                                 IF c = "USD" THEN CURRENCY_RATES[c]
                                 ELSE CURRENCY_RATES[c] + 1]
        /\ UNCHANGED << PRICING, CLOUD_MULTIPLIERS, Database_db, dbVars, now,
                        inserted, scheduler_running, pc, data, idx, outcome, job,
                        run, runs, seeds, faults, snapshot, estimateRead, ret,
                        payload, held, http_response >>

\* EstimationService.estimate(architecture, traffic, currency) is called;
\* again tells that the same call had returned since the table was loaded
EstimateCall ==
    LET r == estimate(payload.architecture, payload.traffic, payload.currency)
    IN  /\ r.exact
        /\ result' = IF r.raised
                     THEN [called |-> FALSE, raised |-> "ValueError"]
                     ELSE [called |-> TRUE, value |-> r, again |-> result.called]
        /\ UNCHANGED << tableVars, Database_db, dbVars, now, inserted,
                        scheduler_running, pc, data, idx, outcome, job, run, runs,
                        seeds, faults, snapshot, estimateRead, ret, payload, held,
                        http_response >>

InitEstimate ==
    /\ InitCommon
    /\ pricing \in {NoDoc, SeedMerge}
    /\ Database_db = "connected"
    /\ pc = [p \in Procs |-> "idle"]
    /\ payload \in Payloads

NextEstimate ==
    \/ CallLoad
    \/ LoadFind("caller")
    \/ LoadApply("caller")
    \/ EstimateCall

SpecEstimate == InitEstimate /\ [][NextEstimate]_vars

(***************************************************************************)
(* Properties of the estimate.                                             *)
(***************************************************************************)
\* the ten category costs in USD of the call that returned
CategoryCosts ==
    LET l == result.value.locals
    IN  << l.compute_cost, l.database_cost, l.storage_cost, l.networking_cost,
           l.cdn_cost, l.messaging_cost, l.security_cost, l.monitoring_cost,
           l.cicd_cost, l.multi_region_cost >>

SumOfTen(s) == s[1] + s[2] + s[3] + s[4] + s[5] + s[6] + s[7] + s[8] + s[9] + s[10]

\* C12: for every estimate the grand total in USD is the sum of the ten
\* category costs (compute, database, storage, networking, cdn, messaging,
\* security, monitoring, cicd, multi_region) and is not negative; the
\* published total is the conversion of that USD total, and every published
\* category is the conversion of its own USD cost.
C12_TotalIsSumOfCategories ==
    result.called =>
        LET l == result.value.locals
            m == result.value.monthly_cost
            c == payload.currency
        IN  /\ l.total_usd = SumOfTen(CategoryCosts)
            /\ l.total_usd >= 0
            /\ m.total = convert(l.total_usd, c)
            /\ m.total = convert(SumOfTen(CategoryCosts), c)
            /\ m.compute = convert(l.compute_cost, c)
            /\ m.database = convert(l.database_cost, c)
            /\ m.storage = convert(l.storage_cost, c)
            /\ m.networking = convert(l.networking_cost, c)
            /\ m.cdn = convert(l.cdn_cost, c)
            /\ m.messaging = convert(l.messaging_cost, c)
            /\ m.security = convert(l.security_cost, c)
            /\ m.monitoring = convert(l.monitoring_cost, c)
            /\ m.cicd = convert(l.cicd_cost, c)
            /\ m.multi_region = convert(l.multi_region_cost, c)
            /\ \A i \in 1..10 : CategoryCosts[i] >= 0

\* C12: an estimate in EUR returned in which the multi-region block costs
\* something, so that the total exceeds the base total
C12_Witness ==
    /\ result.called
    /\ payload.currency = <<"E", "U", "R">>
    /\ result.value.locals.multi_region_cost > 0
    /\ CURRENCY_RATES["EUR"] /= 100
    /\ result.value.monthly_cost.total
           = result.value.locals.total_usd * CURRENCY_RATES["EUR"]
    /\ result.value.locals.total_usd > result.value.locals.base_total

Quote == [ch |-> "quote"]

Weak == [ch |-> "W/"]

\* main.py 167-185: json.dumps(cache_key_dict, sort_keys=True)
cache_key(architecture, traffic, currency) ==
    [architecture |-> architecture, currency |-> currency,
     daily_active_users |-> traffic.daily_active_users,
     api_requests_per_user |-> traffic.api_requests_per_user,
     storage_per_user_mb |-> traffic.storage_per_user_mb,
     peak_traffic_multiplier |-> traffic.peak_traffic_multiplier,
     funding_available |-> traffic.funding_available,
     database |-> traffic.database, cdn |-> traffic.cdn,
     messaging |-> traffic.messaging, security |-> traffic.security,
     monitoring |-> traffic.monitoring, cicd |-> traffic.cicd,
     multi_region |-> traffic.multi_region]

\* main.py 186: hashlib.md5(cache_key.encode()).hexdigest()
hexdigest(key) == << [md5 |-> key] >>

\* f'"{etag}"'
quoted(s) == << Quote >> \o s \o << Quote >>

\* the comparison without the strip: the header as sent
as_sent(s) == s

\* str.strip('"'): the string without its leading and trailing quotes
RECURSIVE strip(_)
strip(s) ==
    IF s = << >> THEN s
    ELSE IF Head(s) = Quote THEN strip(Tail(s))
    ELSE IF s[Len(s)] = Quote THEN strip(SubSeq(s, 1, Len(s) - 1))
    ELSE s

\* request.headers.get(name): None is the empty string here, both are falsy
headers_get(headers, name) ==
    IF name \in DOMAIN headers THEN headers[name] ELSE << >>

\* schemas.py 105-173: the validators of TrafficInput, on the fields sent
TrafficInputValid(traffic) ==
    /\ traffic.daily_active_users >= 1
    /\ traffic.daily_active_users <= 1000000000
    /\ traffic.api_requests_per_user >= 0
    /\ traffic.api_requests_per_user <= 1000000
    /\ traffic.storage_per_user_mb >= 0
    /\ ~float_lt(traffic.peak_traffic_multiplier, 100)
    /\ ~float_gt(traffic.peak_traffic_multiplier, 1000)
    /\ traffic.funding_available >= 0

\* the payloads posted: two loads in two currencies, two that fail
\* validation (no architecture, no users), and one whose multiplier is nan
EndpointPayloads ==
    [architecture : ArchitectureType,
     traffic : {IdleTraffic, LoadedTraffic},
     currency : {<<"U", "S", "D">>, <<"E", "U", "R">>}]
    \cup {[architecture |-> "", traffic |-> IdleTraffic,
           currency |-> <<"U", "S", "D">>],
          [architecture |-> "monolith",
           traffic |-> [IdleTraffic EXCEPT !.daily_active_users = 0],
           currency |-> <<"U", "S", "D">>],
          [architecture |-> "monolith",
           traffic |-> [IdleTraffic EXCEPT !.peak_traffic_multiplier = nan],
           currency |-> <<"U", "S", "D">>]}

\* the tag of the payload that differs in its currency only
OtherEtag ==
    hexdigest(cache_key(payload.architecture, payload.traffic,
                        <<"I", "N", "R">>))

\* what a client may send: no header, an empty one, the tag it holds from
\* an earlier response, and strings it makes up
RequestHeaders ==
    LET own == hexdigest(cache_key(payload.architecture, payload.traffic,
                                   payload.currency))
        values == {<< >>, own, quoted(quoted(own)), << Weak >> \o quoted(own),
                   quoted(OtherEtag), OtherEtag, << Quote >>}
                  \cup (IF held = NoEtag THEN {} ELSE {held})
    IN  {<< >>} \cup {("if-none-match" :> v) : v \in values}

\* main.py 146-223: estimate_cost(request, payload)
EstimateRequest(headers) ==
    LET architecture == payload.architecture
        traffic == payload.traffic
        currency == payload.currency
        etag == hexdigest(cache_key(architecture, traffic, currency))
        client_etag == headers_get(headers, "if-none-match")
        r == estimate(architecture, traffic, currency)
    IN  /\ pc["caller"] = "idle"
        /\ IF architecture = "" \/ ~TrafficInputValid(traffic)
           THEN /\ http_response' = [request |-> headers, status_code |-> 422]
                /\ UNCHANGED << result, held >>
           ELSE IF client_etag /= << >> /\ strip(client_etag) = etag
           THEN /\ http_response' =
                       [request |-> headers, status_code |-> 304,
                        ETag |-> quoted(etag)]
                /\ held' = quoted(etag)
                /\ UNCHANGED result
           ELSE IF r.raised
           THEN \* except ValueError: HTTPException(status_code=422)
                /\ result' = [called |-> FALSE, raised |-> "ValueError"]
                /\ http_response' = [request |-> headers, status_code |-> 422]
                /\ UNCHANGED held
           ELSE /\ r.exact
                /\ result' = [called |-> TRUE, value |-> r,
                              again |-> result.called]
                /\ http_response' =
                       [request |-> headers, status_code |-> 200,
                        ETag |-> quoted(etag), X_Cache_Key |-> etag,
                        content |-> r]
                /\ held' = quoted(etag)
        /\ UNCHANGED << tableVars, Database_db, dbVars, now, inserted,
                        scheduler_running, pc, data, idx, outcome, job, run, runs,
                        seeds, faults, snapshot, estimateRead, ret, payload >>

InitEndpoint ==
    /\ InitCommon
    /\ pricing \in {NoDoc, SeedMerge}
    /\ Database_db = "connected"
    /\ pc = [p \in Procs |-> "idle"]
    /\ payload \in EndpointPayloads

NextEndpoint ==
    \/ CallLoad
    \/ LoadFind("caller")
    \/ LoadApply("caller")
    \/ \E headers \in RequestHeaders : EstimateRequest(headers)

SpecEndpoint == InitEndpoint /\ [][NextEndpoint]_vars

(***************************************************************************)
(* Properties of POST /estimate.                                           *)
(***************************************************************************)
\* the digest of the payload posted, and its ETag
PayloadDigest ==
    hexdigest(cache_key(payload.architecture, payload.traffic, payload.currency))

PayloadEtag == quoted(PayloadDigest)

\* a header value in which the digest of the payload does not occur
Foreign(value) == \A i \in 1..Len(value) : << value[i] >> /= PayloadDigest

\* C14: a request for a valid payload whose If-None-Match is the ETag an
\* earlier response to the same payload returned is answered 304 with that
\* ETag, and the estimation does not run; a request without If-None-Match,
\* or with one that does not name the payload's digest, is answered 200
\* with the full result and the payload's ETag.
C14_ConditionalRequest ==
    [][(http_response' /= http_response
        /\ http_response'.status_code \in {200, 304})
          => LET sent == headers_get(http_response'.request, "if-none-match")
             IN  /\ (held /= NoEtag /\ sent = held)
                       => /\ http_response'.status_code = 304
                          /\ http_response'.ETag = held
                          /\ http_response'.ETag = PayloadEtag
                          /\ result' = result
                 /\ Foreign(sent)
                       => /\ http_response'.status_code = 200
                          /\ http_response'.ETag = PayloadEtag
                          /\ http_response'.content
                                = estimate(payload.architecture, payload.traffic,
                                           payload.currency)
                          /\ result'.called
                          /\ result'.value = http_response'.content]_vars

\* C14: a 304 answered to the tag held from the first 200 of the payload,
\* whose estimation ran once
C14_Witness ==
    /\ http_response.status_code = 304
    /\ headers_get(http_response.request, "if-none-match") = PayloadEtag
    /\ held = PayloadEtag
    /\ result.called
    /\ ~result.again
    /\ result.value.monthly_cost.total > 0

(***************************************************************************)
(* Properties of the instance counts and of the cost blocks.               *)
(***************************************************************************)
\* C15: for the monolith architecture the instance count is
\* max(1, ceiling(peak_rps / 40)), also where peak_rps is a whole multiple
\* of 40, and the compute cost is that count times the price of
\* compute/t3.medium.
C15_MonolithInstancesAreCeiling ==
    (result.called /\ payload.architecture = "monolith") =>
        LET t == payload.traffic
            peak == t.daily_active_users * t.api_requests_per_user
                    * t.peak_traffic_multiplier
            per_instance == 86400 * 40 * 100
            ceiling == IF peak % per_instance = 0 THEN peak \div per_instance
                       ELSE peak \div per_instance + 1
        IN  /\ result.value.locals.instances = max(1, ceiling)
            /\ result.value.locals.compute_cost
                  = max(1, ceiling) * get_price("compute", "t3.medium")

\* C16: with the requests per user and the peak multiplier held fixed, the
\* monolith instance count does not decrease as the daily active users
\* grow: DAU1 <= DAU2 implies instances(DAU1) <= instances(DAU2).
C16_MonolithInstancesMonotone ==
    (result.called /\ payload.architecture = "monolith") =>
        \A dau \in Users :
            payload.traffic.daily_active_users <= dau
                => result.value.locals.instances
                      <= ArchitectureBase("monolith",
                             [payload.traffic EXCEPT !.daily_active_users = dau]
                         ).instances

\* C16: a monolith estimate of two instances returned, and twice its users
\* take three
C16_Witness ==
    /\ result.called
    /\ payload.architecture = "monolith"
    /\ payload.traffic.daily_active_users = 69120
    /\ result.value.locals.instances = 2
    /\ ArchitectureBase("monolith",
           [payload.traffic EXCEPT !.daily_active_users = 138240]).instances = 3

\* C17: for the microservices architecture the instance count of each
\* service is max(1, ceiling(DAU / 50000)) for every valid DAU, the total
\* instance count is 5 times that, and the compute cost is the total times
\* the price of compute/t3.micro.
C17_MicroservicesInstancesAreCeiling ==
    (result.called /\ payload.architecture = "microservices") =>
        LET dau == payload.traffic.daily_active_users
            ceiling == IF dau % 50000 = 0 THEN dau \div 50000
                       ELSE dau \div 50000 + 1
        IN  /\ result.value.locals.instances = 5 * max(1, ceiling)
            /\ result.value.locals.compute_cost
                  = 5 * max(1, ceiling) * get_price("compute", "t3.micro")

\* the database cost of the call, with Multi-AZ set as given
DatabaseCostWith(multi_az) ==
    calculate_database_cost(
        payload.traffic,
        [payload.traffic.database EXCEPT !.multi_az = multi_az],
        ArchitectureBase(payload.architecture, payload.traffic).database_cost).cost

\* C18 as stated: for every traffic input, base database cost and database
\* configuration, the database cost with multi_az enabled is exactly twice
\* the database cost of the same configuration (same replicas, backup and
\* cache settings) with multi_az disabled.
C18_MultiAzDoublesDatabaseCost ==
    result.called => DatabaseCostWith(TRUE) = 2 * DatabaseCostWith(FALSE)

\* C18 amended: Multi-AZ doubles the base database cost and the replica
\* cost only, so the cost with multi_az enabled is the cost with it disabled
\* plus the base cost and the replica cost; it is exactly twice the cost
\* with multi_az disabled when backups are off and no cache is configured.
C18_MultiAzDoublesBaseAndReplicas ==
    result.called =>
        LET c == payload.traffic.database
            base == ArchitectureBase(payload.architecture,
                                     payload.traffic).database_cost
            replica_cost == c.read_replicas * get_price("database", "read_replica")
            plain == ~c.backup_enabled
                     /\ (c.cache_type = "None" \/ c.cache_size_gb = 0)
        IN  /\ result.value.locals.database_cost = DatabaseCostWith(c.multi_az)
            /\ DatabaseCostWith(TRUE)
                  = DatabaseCostWith(FALSE) + base + replica_cost
            /\ plain => DatabaseCostWith(TRUE) = 2 * DatabaseCostWith(FALSE)
            /\ plain => DatabaseCostWith(FALSE) = base + replica_cost

\* C18: an estimate returned for a Multi-AZ database with replicas, backups
\* and a cache, whose cost is less than twice the cost without Multi-AZ
C18_Witness ==
    /\ result.called
    /\ payload.traffic.database.multi_az
    /\ payload.traffic.database.read_replicas > 0
    /\ payload.traffic.database.backup_enabled
    /\ payload.traffic.database.cache_size_gb > 0
    /\ result.value.locals.database_cost = DatabaseCostWith(TRUE)
    /\ DatabaseCostWith(TRUE) < 2 * DatabaseCostWith(FALSE)

\* C19: a disabled feature block costs 0 and adds no entry to the
\* infrastructure requirements, whatever its other fields hold: the CDN
\* with enabled false, messaging with enabled false (also with dlq_enabled
\* true), and multi-region with enabled false or at most one region.
C19_DisabledBlocksCostNothing ==
    result.called =>
        LET t == payload.traffic
            l == result.value.locals
            reqs == result.value.infrastructure_requirements
        IN  /\ ~t.cdn.enabled
                  => /\ l.cdn_cost = 0
                     /\ result.value.monthly_cost.cdn = 0
                     /\ reqs \cap {"CDN Transfer", "Edge Functions",
                                   "Video Streaming"} = {}
                     /\ calculate_cdn_cost(t.cdn).reqs = {}
            /\ ~t.messaging.enabled
                  => /\ l.messaging_cost = 0
                     /\ result.value.monthly_cost.messaging = 0
                     /\ reqs \cap {"Queue", "DLQ"} = {}
                     /\ calculate_messaging_cost(t.messaging, t).reqs = {}
            /\ (~t.multi_region.enabled \/ t.multi_region.regions <= 1)
                  => /\ l.multi_region_cost = 0
                     /\ result.value.monthly_cost.multi_region = 0
                     /\ l.total_usd = l.base_total
                     /\ reqs \cap {"Regions", "Cross-Region Transfer",
                                   "HA Setup"} = {}

\* C19: an estimate returned for an enabled active-active multi-region
\* block of one region with a cross-region transfer
C19_Witness ==
    /\ result.called
    /\ payload.traffic.multi_region.enabled
    /\ payload.traffic.multi_region.regions = 1
    /\ payload.traffic.multi_region.cross_region_transfer_gb > 0
    /\ payload.traffic.multi_region.replication_type = "active_active"
    /\ result.value.locals.multi_region_cost = 0
    /\ "Regions" \notin result.value.infrastructure_requirements

\* the funding of the call in the currency asked for, and whether it lasts
\* more than 240 months at the monthly total returned
FundingConverted == convert(payload.traffic.funding_available, payload.currency)

MoreThan240Months ==
    LET total == result.value.monthly_cost.total
    IN  \/ FundingConverted \div 240 > total
        \/ FundingConverted \div 240 = total /\ FundingConverted % 240 > 0

RunwayEntries == {e \in result.value.business_metrics : e.key = "Runway"}

\* C20 as stated: for every input the Runway metric reads 'Indefinite' if
\* the months (converted funding / monthly total) exceed 240, and a number
\* of months otherwise, also at exactly 240 months.
C20_RunwayForEveryInput ==
    result.called =>
        \E e \in RunwayEntries :
            IF MoreThan240Months THEN e.text = "Indefinite (>20 years)"
            ELSE e.text = "months"

\* C20 amended: when the funding and the monthly total are both positive
\* there is one Runway metric, which reads 'Indefinite' exactly when the
\* months exceed 240 and the months to one decimal otherwise, also at
\* exactly 240; without funding, or with a total of 0, there is no Runway
\* metric.
C20_RunwayWhenFunded ==
    result.called =>
        LET total == result.value.monthly_cost.total
        IN  IF payload.traffic.funding_available > 0 /\ total > 0
            THEN /\ Cardinality(RunwayEntries) = 1
                 /\ \A e \in RunwayEntries :
                        /\ e.text = "Indefinite (>20 years)" <=> MoreThan240Months
                        /\ e.text = "months" <=> ~MoreThan240Months
                        /\ e.text = "months"
                              => /\ e.tenths <= 2400
                                 /\ e.tenths \div 10 = FundingConverted \div total
            ELSE RunwayEntries = {}

\* C20: an estimate returned whose funding lasts exactly 240 months, and
\* whose Runway metric reads 240.0 months
C20_Witness ==
    /\ result.called
    /\ result.value.monthly_cost.total > 0
    /\ FundingConverted \div 240 = result.value.monthly_cost.total
    /\ FundingConverted % 240 = 0
    /\ RunwayEntries = {[key |-> "Runway", text |-> "months", tenths |-> 2400]}

(***************************************************************************)
(* Properties of the currency asked for.                                   *)
(***************************************************************************)
\* C21: the estimate does not depend on the letter case of the currency
\* code: for two codes that differ only in case every numeric field and every
\* currency-formatted string (the savings of the suggestions, the cost per
\* user) is the same, so the amounts and the symbol shown belong to the same
\* currency.
C21_ResultIgnoresCurrencyCase ==
    result.called =>
        LET upper == estimate(payload.architecture, payload.traffic,
                              str_upper(payload.currency))
        IN  /\ result.value.monthly_cost = upper.monthly_cost
            /\ result.value.optimization_suggestions = upper.optimization_suggestions
            /\ result.value.business_metrics = upper.business_metrics

\* C22: estimate never fails for a validated traffic input and a non-empty
\* price table: every call returns a result.
C22_EstimateNeverFails == "raised" \notin DOMAIN result

(***************************************************************************)
(* The service with refresh-job runs that overlap: the cron trigger and    *)
(* the admin request start runs at any time, and the coroutines take turns *)
(* at their awaits.  A stored document is found at startup, and no         *)
(* operation raises.                                                       *)
(***************************************************************************)
InitOverlap ==
    /\ Init
    /\ pricing = SeedMerge

NextOverlap ==
    \/ LifespanStartup /\ Database_db' = "connected" /\ faults' = faults
    \/ \E p \in {"lifespan", "admin"} :
          (LoadFind(p) \/ LoadApply(p)) /\ faults' = faults
    \/ \E p \in Jobs : JobBegin(p) /\ faults' = faults
    \/ \E p \in Jobs : JobStep(p) /\ faults' = faults

SpecOverlap == InitOverlap /\ [][NextOverlap]_vars

\* C23: also when two runs of the refresh job overlap, pricing_history
\* never holds more than two archived snapshots, for every interleaving of
\* the database operations of archive_current_pricing.
C23_HistoryBoundUnderOverlap == Cardinality(pricing_history) <= 2

C25_ComplianceAddsItsPrice ==
    result.called =>
        LET sec == payload.traffic.security
            bare == [payload.traffic EXCEPT !.security.compliance = <<>>]
            without == estimate(payload.architecture, bare,
                                payload.currency).locals.security_cost
            listed == {Str(str_lower(sec.compliance[n])) : n \in DOMAIN sec.compliance}
            added == result.value.locals.security_cost - without
        IN  /\ listed \cap {"soc2", "iso27001", "hipaa", "pci_dss"} = {} => added = 0
            /\ \A standard \in {"soc2", "iso27001", "hipaa", "pci_dss"} :
                   listed = {standard} => added > 0

\* C26 (as stated): with the Datadog provider and APM enabled the APM
\* surcharge is a flat amount, the same for every instance count: the call
\* pays the surcharge that a call with a single instance pays.
C26_DatadogApmFlat ==
    result.called /\ payload.traffic.monitoring.provider = "datadog"
                  /\ payload.traffic.monitoring.apm_enabled =>
        LET off == [payload.traffic.monitoring EXCEPT !.apm_enabled = FALSE]
            surcharge(instances) ==
                calculate_monitoring_cost(payload.traffic.monitoring, instances,
                                          payload.traffic).cost
                    - calculate_monitoring_cost(off, instances, payload.traffic).cost
            l == result.value.locals
        IN  /\ l.monitoring_cost
                   = calculate_monitoring_cost(off, l.instances, payload.traffic).cost
                         + surcharge(l.instances)
            /\ surcharge(l.instances) = surcharge(1)

\* C26 (amended): with the Datadog provider and APM enabled the monitoring
\* cost is instances x per-host price plus instances x 50 USD (plus the
\* tracing cost when distributed tracing is on): the APM surcharge grows
\* with the instance count.
C26_DatadogApmPerInstance ==
    result.called /\ payload.traffic.monitoring.provider = "datadog"
                  /\ payload.traffic.monitoring.apm_enabled =>
        LET l == result.value.locals
            none == [payload.traffic EXCEPT !.monitoring.provider = "none"]
            tracing == estimate(payload.architecture, none,
                                payload.currency).locals.monitoring_cost
        IN  l.monitoring_cost
                = l.instances * get_price("monitoring", "datadog_host")
                      + l.instances * 50000 + tracing

C26_Witness ==
    /\ result.called
    /\ payload.traffic.monitoring.provider = "datadog"
    /\ payload.traffic.monitoring.apm_enabled
    /\ result.value.locals.instances > 1
    /\ result.value.locals.monitoring_cost
           >= result.value.locals.instances * 50000

(***************************************************************************)
(* GET /admin/dashboard and GET /admin/messages, for a request that        *)
(* carries a valid admin token.  Both handlers hold their whole body in    *)
(* try / except Exception.  The reads of a connected database are taken    *)
(* in one step; a read may raise.                                          *)
(***************************************************************************)
HTTPException(status_code, detail) ==
    [status_code |-> status_code, detail |-> detail]

\* str(e) of an exception: "status_code: detail" for an HTTPException, the
\* message for any other
str_of(e) ==
    IF "status_code" \in DOMAIN e
    THEN ToString(e.status_code) \o ": " \o e.detail
    ELSE e.message

AdminPaths == {"/admin/dashboard", "/admin/messages"}

admin_get(path, raises) ==
    LET db == Database_db
        e == IF db = "None"
             THEN HTTPException(503, "Database not connected")
             ELSE [message |-> "read failed"]
        caught == db = "None" \/ raises
        content ==
            IF path = "/admin/dashboard"
            THEN [job_status_found |-> job_status /= NoDoc,
                  total_currencies_configured |->
                      IF pricing = NoDoc THEN 0 ELSE 1,
                  total_count |-> Cardinality(pricing_history),
                  max_allowed |-> 2]
            ELSE [messages |-> <<>>]
    IN  IF caught
        THEN [path |-> path] @@ HTTPException(500, str_of(e))
        ELSE [path |-> path, status_code |-> 200, content |-> content]

AdminGet(path) ==
    /\ pc["lifespan"] = "serving"
    /\ \E raises \in (IF Database_db = "None" THEN {FALSE} ELSE MayRaise) :
         /\ faults' = Raised(raises)
         /\ http_response' = admin_get(path, raises)
    /\ UNCHANGED << tableVars, Database_db, dbVars, now, inserted,
                    scheduler_running, pc, data, idx, outcome, job, run, runs,
                    seeds, snapshot, estimateRead, ret, payload, result, held >>

NextAdmin ==
    \/ LifespanStartup
    \/ \E p \in {"lifespan", "admin"} : LoadFind(p) \/ LoadApply(p)
    \/ \E p \in Jobs : JobBeginAlone(p) \/ JobStep(p)
    \/ \E path \in AdminPaths : AdminGet(path)

SpecAdmin == Init /\ [][NextAdmin]_vars

\* C27: while the database is not connected, an authenticated GET of
\* /admin/dashboard or /admin/messages is answered with status 503 and the
\* detail 'Database not connected'.
C27_AdminAnswers503WithoutDatabase ==
    Database_db = "None" /\ "path" \in DOMAIN http_response =>
        /\ http_response.status_code = 503
        /\ http_response.detail = "Database not connected"

\* C28: a 304 is answered only when the result the server would compute now
\* equals the result that was returned with the ETag: a request that carries
\* the ETag of the last 200 answer and is answered 304 finds the estimate of
\* its payload equal to the content of that 200 answer.
C28_NotModifiedOnlyWhenUnchanged ==
    [][ LET now_computed == estimate(payload.architecture, payload.traffic,
                                     payload.currency)
        IN  /\ http_response.status_code = 200
            /\ http_response'.status_code = 304
            /\ http_response'.request = ("if-none-match" :> http_response.ETag)
            /\ now_computed.exact
            => now_computed = http_response.content ]_vars

\* C29: while the stored latest_pricing document holds only the fields the
\* refresh job writes (providers, currency_rates, meta, beside its _id), no
\* step of a refresh-job run or of a reload changes an entry of a PRICING
\* category or a cloud multiplier, and the document keeps holding only
\* those fields: CURRENCY_RATES is all that a run and a reload change.
C29_RunAndReloadChangeOnlyRates ==
    [][ LET JobFields == {"_id", "providers", "currency_rates", "meta"}
        IN  pricing /= NoDoc /\ (\A n \in DOMAIN pricing : pricing[n][1] \in JobFields)
            => /\ PRICING' = PRICING
               /\ CLOUD_MULTIPLIERS' = CLOUD_MULTIPLIERS
               /\ pricing' /= NoDoc
               /\ \A n \in DOMAIN pricing' : pricing'[n][1] \in JobFields ]_vars

C29_Witness ==
    /\ pricing /= NoDoc
    /\ \A n \in DOMAIN pricing :
           pricing[n][1] \in {"_id", "providers", "currency_rates", "meta"}
    /\ run["admin"].replaced /= NoDoc
    /\ run["admin"].returned = "True"
    /\ pc["admin"] = "idle"
    /\ outcome["admin"] = "applied"
    /\ CURRENCY_RATES /= DefaultCurrencyRates
    /\ PRICING = DefaultPricing

\* C30: with the built-in price table a larger cache never costs less than
\* a smaller one of the same engine (redis, memcached): the database cost of
\* a call with a cache is at least that of the same call with a cache of a
\* smaller size bucket (1 GB, 3 GB).
C30_CacheCostNonDecreasing ==
    result.called /\ PRICING["cache"] = DefaultPricing["cache"]
                  /\ payload.traffic.database.cache_type \in {"redis", "memcached"} =>
        \A smaller \in {1, 3} :
            smaller <= payload.traffic.database.cache_size_gb =>
                estimate(payload.architecture,
                         [payload.traffic EXCEPT !.database.cache_size_gb = smaller],
                         payload.currency).locals.database_cost
                    <= result.value.locals.database_cost
====
